---- MODULE Spec2Model ----
(***************************************************************************)
(* Model of the retrieval core of soc_l1:                                  *)
(*   rag/embedding_indexer.py  FaissIndexer (add, count, persist, _load,   *)
(*                             query) and its sidecar file                 *)
(*   rag/context_retriever.py  DynamicRuleMapper, parse_rule_id and the    *)
(*                             merge/boost step of the dual retriever      *)
(* Text is modelled as a sequence of one-character strings, so that the    *)
(* regular expressions, substring tests, lower-casing and zero-padding of  *)
(* the source are computed rather than assumed.  Floating point scores are *)
(* fixed-point integers.                                                   *)
(***************************************************************************)
EXTENDS Integers, Sequences, FiniteSets, TLC

VARIABLES
    index,       \* FaissIndexer.index: the faiss object, or none (open = FALSE)
    ids,         \* FaissIndexer.ids
    metadatas,   \* FaissIndexer.metadatas
    documents,   \* FaissIndexer.documents
    indexFile,   \* the file at index_path
    metaFile,    \* the file at meta_path (JSON sidecar)
    call,        \* the last call made on the indexer and its arguments
    ret,         \* what that call returned, or that it raised
    mapper,      \* the module-level _rule_mapper of context_retriever.py
    artifact,    \* artifacts/rule_keys.json: present or not, and its records
    rq,          \* the query handed to the resolver / retriever
    rres,        \* the value the resolver returned for rq
    retr,        \* the last call of _retrieve_with_dynamic_matching: its
                 \* arguments, the result of each variant's query, its result
    cls,         \* the dict the last classify_query call returned
    ctx,         \* the last retrieve_context / build_context_block call
    embedCall,   \* the last OllamaEmbedder.embed_texts call
    persisting   \* how far a persist() call has got, the files the last
                 \* completed persist() left and the files this one writes

vars == <<index, ids, metadatas, documents, indexFile, metaFile, call, ret,
          mapper, artifact, rq, rres, retr, cls, ctx, embedCall, persisting>>

indexVars == <<index, ids, metadatas, documents, indexFile, metaFile, call, ret,
               persisting>>
resolverVars == <<mapper, artifact, rq, rres>>
retrieverVars == <<retr>>
contextVars == <<ctx, embedCall>>

(***************************************************************************)
(* Bounds                                                                  *)
(***************************************************************************)
MaxDocs == 3
MaxBatch == 2
MaxK == 2

(***************************************************************************)
(* Text helpers (Python str operations used by the source)                 *)
(***************************************************************************)
Digits == {"0", "1", "2", "3", "4", "5", "6", "7", "8", "9"}
Uppers == {"R", "U", "L", "E", "A", "B"}
Lowers == {"a", "b", "c", "d", "e", "f", "g", "h", "i", "j", "k", "l", "m",
           "n", "o", "p", "q", "r", "s", "t", "u", "v", "w", "x", "y", "z"}
Spaces == {" ", "\n", "\t", "\r"}

IsDigit(c) == c \in Digits
IsSpace(c) == c \in Spaces
\* \w of the re module: letters, digits and the underscore
IsWordChar(c) == c \in Digits \cup Uppers \cup Lowers \cup {"_"}

LowerChar(c) ==
    CASE c = "R" -> "r" [] c = "U" -> "u" [] c = "L" -> "l" [] c = "E" -> "e"
      [] c = "A" -> "a" [] c = "B" -> "b" [] OTHER -> c

\* str.lower()
Lower(s) == [i \in 1..Len(s) |-> LowerChar(s[i])]

\* s[i:j] with 1-based inclusive bounds; empty when j < i
Slice(s, i, j) == [n \in 1..(j - i + 1) |-> s[i + n - 1]]

\* s.startswith(p, at)
StartsAt(s, p, at) ==
    /\ at >= 1
    /\ at + Len(p) - 1 <= Len(s)
    /\ \A n \in 1..Len(p) : s[at + n - 1] = p[n]

\* s.lower().startswith(p, at)
StartsAtLower(s, p, at) ==
    /\ at >= 1
    /\ at + Len(p) - 1 <= Len(s)
    /\ \A n \in 1..Len(p) : LowerChar(s[at + n - 1]) = p[n]

\* p in s
Contains(s, p) == \E at \in 1..(Len(s) + 1) : StartsAt(s, p, at)

\* str.strip()
FirstNonSpace(s) ==
    IF \E i \in 1..Len(s) : ~IsSpace(s[i])
    THEN CHOOSE i \in 1..Len(s) : ~IsSpace(s[i]) /\ \A j \in 1..(i - 1) : IsSpace(s[j])
    ELSE Len(s) + 1
LastNonSpace(s) ==
    IF \E i \in 1..Len(s) : ~IsSpace(s[i])
    THEN CHOOSE i \in 1..Len(s) : ~IsSpace(s[i]) /\ \A j \in (i + 1)..Len(s) : IsSpace(s[j])
    ELSE 0
Strip(s) == Slice(s, FirstNonSpace(s), LastNonSpace(s))

\* str.zfill(width)
RECURSIVE Zeros(_)
Zeros(n) == IF n <= 0 THEN <<>> ELSE <<"0">> \o Zeros(n - 1)
ZFill(s, width) == Zeros(width - Len(s)) \o s

RuleWord == <<"r", "u", "l", "e">>

(***************************************************************************)
(* Metadata values.  A value carries its Python type: "s" str, "i" int,    *)
(* "f" float, "b" bool, "n" None, "o" any other object (list, dict, ...).  *)
(***************************************************************************)
Val(t, s, n, b) == [t |-> t, s |-> s, n |-> n, b |-> b]
VStr(s) == Val("s", s, 0, FALSE)
VInt(n) == Val("i", "", n, FALSE)
VFloat(n) == Val("f", "", n, FALSE)
VBool(b) == Val("b", "", 0, b)
VNone == Val("n", "", 0, FALSE)
VObj(s) == Val("o", s, 0, FALSE)

\* _safe_meta: scalars are kept, anything else becomes its JSON text
SafeValue(v) == IF v.t \in {"s", "i", "f", "b", "n"} THEN v ELSE VStr(v.s)
_safe_meta(meta) == [k \in DOMAIN meta |-> SafeValue(meta[k])]

(***************************************************************************)
(* The JSON sidecar.  json.dump writes each Python value as a JSON token   *)
(* and json.load reads the token back: a str becomes a JSON string, an int *)
(* a number without fraction, a float a number with one, a bool the        *)
(* literal true/false and None the literal null.                           *)
(***************************************************************************)
JTok(j, s, n) == [j |-> j, s |-> s, n |-> n]

JsonDumpValue(v) ==
    CASE v.t = "s" -> JTok("string", v.s, 0)
      [] v.t = "i" -> JTok("number", "int", v.n)
      [] v.t = "f" -> JTok("number", "float", v.n)
      [] v.t = "b" -> JTok("literal", IF v.b THEN "true" ELSE "false", 0)
      [] OTHER     -> JTok("literal", "null", 0)

\* variant: every JSON number is read back as an int
JsonLoadValueIntOnly(t) ==
    CASE t.j = "string" -> VStr(t.s)
      [] t.j = "number" -> VInt(t.n)
      [] t.j = "literal" /\ t.s = "true" -> VBool(TRUE)
      [] t.j = "literal" /\ t.s = "false" -> VBool(FALSE)
      [] OTHER -> VNone

JsonLoadValue(t) ==
    CASE t.j = "string" -> VStr(t.s)
      [] t.j = "number" -> IF t.s = "int" THEN VInt(t.n) ELSE VFloat(t.n)
      [] t.j = "literal" /\ t.s = "true" -> VBool(TRUE)
      [] t.j = "literal" /\ t.s = "false" -> VBool(FALSE)
      [] OTHER -> VNone

JsonDumpMeta(m) == [k \in DOMAIN m |-> JsonDumpValue(m[k])]
JsonLoadMeta(o) == [k \in DOMAIN o |-> JsonLoadValue(o[k])]

\* a Python str (ids, documents) written as a JSON string and read back
JsonDumpStr(s) == JTok("string", s, 0)
JsonLoadStr(t) == t.s

NoFile == [exists |-> FALSE]
\* a file whose write was cut short: it exists and cannot be read back
TornFile == [exists |-> TRUE, torn |-> TRUE]
IsTorn(f) == "torn" \in DOMAIN f

\* no persist() call is under way and none has completed
NotPersisting == [pc |-> "idle",
                  old |-> [indexFile |-> NoFile, metaFile |-> NoFile],
                  new |-> [indexFile |-> NoFile, metaFile |-> NoFile]]

(***************************************************************************)
(* Vectors: rows of integers; the float32 arithmetic of numpy/faiss is     *)
(* modelled in fixed point: a normalized component has Scale units per 1.0  *)
(* and an inner product Scale * Scale units per 1.0.                       *)
(***************************************************************************)
Scale == 10

ISqrt(n) == CHOOSE r \in 0..(n + 1) : r * r <= n /\ (r + 1) * (r + 1) > n

RECURSIVE Dot(_, _)
Dot(a, b) == IF Len(a) = 0 \/ Len(b) = 0 THEN 0
             ELSE a[1] * b[1] + Dot(Tail(a), Tail(b))

\* one row of _l2_normalize: x / (norm + 1e-12); a zero row stays zero
NormalizeRow(v) ==
    LET norm == ISqrt(Dot(v, v) * Scale * Scale)
    IN  [i \in 1..Len(v) |-> IF norm = 0 THEN 0 ELSE (v[i] * Scale * Scale) \div norm]

_l2_normalize(x) == [r \in 1..Len(x) |-> NormalizeRow(x[r])]

(***************************************************************************)
(* numpy arrays handed to add/query: ndim 0 stands for None; for ndim 1    *)
(* rows holds the single vector; cols is the last axis length.             *)
(***************************************************************************)
Arr(ndim, rows, cols) == [ndim |-> ndim, rows |-> rows, cols |-> cols]
ArrSize(a) == IF a.ndim = 0 THEN 0 ELSE Len(a.rows) * a.cols

NoIndex == [open |-> FALSE, d |-> 0, vecs |-> <<>>]

\* FaissIndexer.count
count(idx) == IF ~idx.open THEN 0 ELSE Len(idx.vecs)

(***************************************************************************)
(* FaissIndexer.add as a function of the instance state and the arguments  *)
(***************************************************************************)
HasRuleContent(doc) ==
    Contains(Lower(doc), RuleWord) /\ \E i \in 1..Len(doc) : IsDigit(doc[i])

EnhanceMeta(meta, doc) ==
    ("has_rule_content" :> VBool(HasRuleContent(doc)))
      @@ ("doc_length" :> VInt(Len(doc)))
      @@ _safe_meta(meta)

\* zip(metadatas, documents) stops at the shorter list
Min(a, b) == IF a <= b THEN a ELSE b
Max(a, b) == IF a >= b THEN a ELSE b
Take(s, k) == [i \in 1..Min(k, Len(s)) |-> s[i]]

\* the value of a set of one value: TheOne({F(x) : x \in {e}}) is F(e) with e
\* computed once
TheOne(S) == CHOOSE r \in S : TRUE

\* the entries of s at the positions in keep, in the order they have in s
PickAt(s, keep) ==
    <<>> \o [n \in 1..Cardinality(keep) |->
                s[CHOOSE i \in keep : Cardinality({j \in keep : j <= i}) = n]]

EnhancedMetadatas(in_metas, in_docs) ==
    [i \in 1..Min(Len(in_metas), Len(in_docs)) |-> EnhanceMeta(in_metas[i], in_docs[i])]

AddIsNoop(emb) == emb.ndim = 0 \/ ArrSize(emb) = 0
AddShapeError(emb) == ~AddIsNoop(emb) /\ emb.ndim # 2
\* variant: the batch width is not compared with the index dimension
AddDimMismatchUnchecked(idx, emb) == FALSE

AddDimMismatch(idx, emb) ==
    ~AddIsNoop(emb) /\ emb.ndim = 2 /\ idx.open /\ idx.d # emb.cols
AddRaises(idx, emb) == AddShapeError(emb) \/ AddDimMismatch(idx, emb)

\* variant: only the first row of the batch reaches the index
IndexAfterAddFirstRowOnly(idx, emb) ==
    [open |-> TRUE,
     d    |-> IF idx.open THEN idx.d ELSE emb.cols,
     vecs |-> idx.vecs \o _l2_normalize(Take(emb.rows, 1))]

IndexAfterAdd(idx, emb) ==
    [open |-> TRUE,
     d    |-> IF idx.open THEN idx.d ELSE emb.cols,
     vecs |-> idx.vecs \o _l2_normalize(emb.rows)]

\* variant: the new entries take the place of the stored ones
extendReplaces(stored, items) == items

\* list.extend: the new entries go after the stored ones
extend(stored, items) == stored \o items

(***************************************************************************)
(* FaissIndexer.persist / _load                                            *)
(***************************************************************************)
\* faiss.write_index: the index file holds the dimension and the vectors
WriteIndex(idx) == [exists |-> TRUE, d |-> idx.d, vecs |-> idx.vecs]

\* json.dump(sidecar, f)
Sidecar(idx, the_ids, the_metas, the_docs) ==
    [exists    |-> TRUE,
     ids       |-> [i \in 1..Len(the_ids) |-> JsonDumpStr(the_ids[i])],
     metadatas |-> [i \in 1..Len(the_metas) |-> JsonDumpMeta(the_metas[i])],
     documents |-> [i \in 1..Len(the_docs) |-> JsonDumpStr(the_docs[i])],
     dim       |-> JsonDumpValue(VInt(idx.d))]

\* faiss.read_index
ReadIndex(f) == [open |-> TRUE, d |-> f.d, vecs |-> f.vecs]

\* sidecar.get("ids", []) etc. after json.load
LoadIds(f) == [i \in 1..Len(f.ids) |-> JsonLoadStr(f.ids[i])]
LoadMetadatas(f) == [i \in 1..Len(f.metadatas) |-> JsonLoadMeta(f.metadatas[i])]
LoadDocuments(f) == [i \in 1..Len(f.documents) |-> JsonLoadStr(f.documents[i])]

(***************************************************************************)
(* FaissIndexer.query                                                      *)
(***************************************************************************)
EmptyResult == [ids |-> <<>>, scores |-> <<>>, documents |-> <<>>, metadatas |-> <<>>]

\* IndexFlatIP.search for one query row: the kk best positions (0-based, as
\* faiss reports them) by inner product, best first
RECURSIVE SearchFrom(_, _, _, _)
SearchFrom(vecs, q, kk, left) ==
    IF kk <= 0 \/ left = {} THEN <<>>
    ELSE LET best == CHOOSE i \in left :
                        \A j \in left :
                            \/ Dot(vecs[i], q) > Dot(vecs[j], q)
                            \/ Dot(vecs[i], q) = Dot(vecs[j], q) /\ i <= j
         IN  <<[i |-> best - 1, s |-> Dot(vecs[best], q)]>>
                 \o SearchFrom(vecs, q, kk - 1, left \ {best})

IndexSearch(idx, q, kk) == SearchFrom(idx.vecs, q, kk, 1..Len(idx.vecs))

\* the row the query works on: a 1-D array is reshaped to one row
QueryRow(emb) == emb.rows[1]

QueryIsEmpty(idx, emb) ==
    emb.ndim = 0 \/ ArrSize(emb) = 0 \/ ~idx.open \/ Len(idx.vecs) = 0

\* positions reported by the search that the loop keeps (-1 is skipped)
KeptSlots(found) == SelectSeq(found, LAMBDA h : h.i # -1)

\* faiss rejects a query of another width; self.ids[i] (and the two other
\* lists) raise IndexError past their end
QueryRaises(idx, the_ids, the_metas, the_docs, emb, k) ==
    /\ ~QueryIsEmpty(idx, emb)
    /\ \/ emb.cols # idx.d
       \/ LET found == KeptSlots(IndexSearch(idx, NormalizeRow(QueryRow(emb)),
                                             Min(k * 2, Len(idx.vecs))))
          IN  \E n \in 1..Len(found) :
                 \/ found[n].i + 1 > Len(the_ids)
                 \/ found[n].i + 1 > Len(the_docs)
                 \/ found[n].i + 1 > Len(the_metas)

\* variant: the result is not cut to k entries
queryUntruncated(idx, the_ids, the_metas, the_docs, emb, k) ==
    IF QueryIsEmpty(idx, emb) THEN EmptyResult
    ELSE LET found == KeptSlots(IndexSearch(idx, NormalizeRow(QueryRow(emb)),
                                            Min(k * 2, Len(idx.vecs))))
         IN  [ids       |-> [n \in 1..Len(found) |-> the_ids[found[n].i + 1]],
              scores    |-> [n \in 1..Len(found) |-> found[n].s],
              documents |-> [n \in 1..Len(found) |-> the_docs[found[n].i + 1]],
              metadatas |-> [n \in 1..Len(found) |-> the_metas[found[n].i + 1]]]

query(idx, the_ids, the_metas, the_docs, emb, k) ==
    IF QueryIsEmpty(idx, emb) THEN EmptyResult
    ELSE LET found == KeptSlots(IndexSearch(idx, NormalizeRow(QueryRow(emb)),
                                            Min(k * 2, Len(idx.vecs))))
         IN  [ids       |-> Take([n \in 1..Len(found) |-> the_ids[found[n].i + 1]], k),
              scores    |-> Take([n \in 1..Len(found) |-> found[n].s], k),
              documents |-> Take([n \in 1..Len(found) |-> the_docs[found[n].i + 1]], k),
              metadatas |-> Take([n \in 1..Len(found) |-> the_metas[found[n].i + 1]], k)]

(***************************************************************************)
(* The module-level DynamicRuleMapper.  Python dicts keep insertion order, *)
(* so each map is a sequence of [k, v] entries in insertion order.         *)
(***************************************************************************)
NewMapper == [loaded |-> FALSE, rule_to_alert_map |-> <<>>,
              alert_to_rule_map |-> <<>>, rule_patterns |-> <<>>]

NoArtifact == [exists |-> FALSE, valid |-> FALSE, records |-> <<>>]
NoAnswer == [op |-> "none", rule_id |-> <<>>]
NoRetrieval == [calls |-> 0, rule_id |-> <<>>, k |-> 0, results |-> <<>>,
                merged |-> EmptyResult]

NoClass == [by |-> "none"]
NoContext == [op |-> "none"]
NoEmbed == [op |-> "none"]

\* a call is recorded with the shape of its array argument, not its content
NoCall == [op |-> "none", ndim |-> 0, rows |-> 0, cols |-> 0, k |-> 0,
           nIds |-> 0, nMetas |-> 0, nDocs |-> 0]
CallSize(c) == IF c.ndim = 0 THEN 0 ELSE c.rows * c.cols
Returned(hits) == [raised |-> FALSE, hits |-> hits]
Raised == [raised |-> TRUE, hits |-> EmptyResult]

(***************************************************************************)
(* Inputs of the index specification: the chunks a caller may pass.        *)
(***************************************************************************)
TextRule2 == <<"R", "u", "l", "e", " ", "2">>

ChunkPool ==
    { [id |-> "a", doc |-> <<"x">>, v |-> <<0, -1>>,
       meta |-> [doctype |-> VStr("tracker_row"), row_index |-> VInt(3),
                 source |-> VNone]],
      [id |-> "b", doc |-> TextRule2, v |-> <<1, 1>>,
       meta |-> [doctype |-> VStr("rulebook"), tags |-> VObj("[1, 2]"),
                 weight |-> VFloat(5), reviewed |-> VBool(TRUE)]] }

FillChunk == CHOOSE c \in ChunkPool : c.id = "b"

MaxDim == 2

RECURSIVE SeqsUpTo(_, _)
SeqsUpTo(S, n) ==
    IF n = 0 THEN {<<>>}
    ELSE LET shorter == SeqsUpTo(S, n - 1)
         IN  shorter \cup {Append(t, x) : t \in {u \in shorter : Len(u) = n - 1}, x \in S}

\* the lists of n values a caller passes next to the chunks cs
ChunkAt(cs, i) == IF i <= Len(cs) THEN cs[i] ELSE FillChunk
ListIds(cs, n) == [i \in 1..n |-> ChunkAt(cs, i).id]
ListMetas(cs, n) == [i \in 1..n |-> ChunkAt(cs, i).meta]
ListDocs(cs, n) == [i \in 1..n |-> ChunkAt(cs, i).doc]

\* the lengths (ids, metadatas, documents) passed next to n vectors: equal to
\* n, or the ids one entry long, or the metadatas one entry short
ListLengths(n) ==
    {<<n, n, n>>, <<n + 1, n, n>>} \cup (IF n > 0 THEN {<<n, n - 1, n>>} ELSE {})

\* the first c components of a pool vector (zero beyond its end)
Row(v, c) == [i \in 1..c |-> IF i <= Len(v) THEN v[i] ELSE 0]

EmbOf(cs, ndim, cols) ==
    Arr(ndim, [i \in 1..Len(cs) |-> Row(cs[i].v, cols)], cols)

(***************************************************************************)
(* Actions of the index specification                                      *)
(***************************************************************************)
\* FaissIndexer(persist_dir, index_name): a new instance on the location
Construct ==
    /\ call' = [NoCall EXCEPT !.op = "init"]
    /\ ret' = Returned(EmptyResult)
    /\ IF indexFile.exists /\ metaFile.exists
       THEN /\ index' = ReadIndex(indexFile)
            /\ ids' = LoadIds(metaFile)
            /\ metadatas' = LoadMetadatas(metaFile)
            /\ documents' = LoadDocuments(metaFile)
       ELSE /\ index' = NoIndex
            /\ ids' = <<>>
            /\ metadatas' = <<>>
            /\ documents' = <<>>
    /\ UNCHANGED <<indexFile, metaFile>>

AddCall(emb, in_ids, in_metas, in_docs) ==
    /\ call' = [NoCall EXCEPT !.op = "add", !.ndim = emb.ndim,
                              !.rows = Len(emb.rows), !.cols = emb.cols,
                              !.nIds = Len(in_ids), !.nMetas = Len(in_metas),
                              !.nDocs = Len(in_docs)]
    /\ IF AddIsNoop(emb)
       THEN /\ ret' = Returned(EmptyResult)
            /\ UNCHANGED <<index, ids, metadatas, documents>>
       ELSE IF AddRaises(index, emb)
       THEN /\ ret' = Raised
            /\ UNCHANGED <<index, ids, metadatas, documents>>
       ELSE /\ ret' = Returned(EmptyResult)
            /\ index' = IndexAfterAdd(index, emb)
            /\ ids' = extend(ids, in_ids)
            /\ metadatas' = extend(metadatas, EnhancedMetadatas(in_metas, in_docs))
            /\ documents' = extend(documents, in_docs)
    /\ UNCHANGED <<indexFile, metaFile>>

Add ==
    \E cs \in SeqsUpTo(ChunkPool, MaxBatch), ndim \in 1..3, cols \in 0..MaxDim :
      \E lens \in ListLengths(Len(cs)) :
        /\ ndim # 2 => Len(cs) = 1 /\ lens = <<1, 1, 1>>
        /\ Len(index.vecs) + Len(cs) <= MaxDocs
        /\ Len(ids) + lens[1] <= MaxDocs
        /\ Len(metadatas) + Min(lens[2], lens[3]) <= MaxDocs
        /\ Len(documents) + lens[3] <= MaxDocs
        /\ AddCall(EmbOf(cs, ndim, cols),
                   ListIds(cs, lens[1]), ListMetas(cs, lens[2]),
                   ListDocs(cs, lens[3]))

Persist ==
    /\ call' = [NoCall EXCEPT !.op = "persist"]
    /\ ret' = Returned(EmptyResult)
    /\ IF ~index.open
       THEN UNCHANGED <<indexFile, metaFile>>
       ELSE /\ indexFile' = WriteIndex(index)
            /\ metaFile' = Sidecar(index, ids, metadatas, documents)
    /\ UNCHANGED <<index, ids, metadatas, documents>>

\* query vectors: None, an array without elements, and single vectors
\* (1-D, or one row as embed_texts([q]) returns it)
QueryInputs ==
    {Arr(0, <<>>, 0), Arr(1, <<<<>>>>, 0)}
      \cup {Arr(1, <<Row(v, c)>>, c) : c \in 1..MaxDim, v \in {<<0, 1>>, <<1, -1>>}}
      \cup {Arr(2, <<<<1, -1>>>>, 2)}

Query ==
    \E emb \in QueryInputs, k \in 1..MaxK :
        /\ call' = [NoCall EXCEPT !.op = "query", !.ndim = emb.ndim,
                                  !.rows = Len(emb.rows), !.cols = emb.cols, !.k = k]
        /\ ret' = IF QueryRaises(index, ids, metadatas, documents, emb, k)
                  THEN Raised
                  ELSE Returned(query(index, ids, metadatas, documents, emb, k))
        /\ UNCHANGED <<index, ids, metadatas, documents, indexFile, metaFile>>

IndexInit ==
    /\ index = NoIndex
    /\ ids = <<>>
    /\ metadatas = <<>>
    /\ documents = <<>>
    /\ indexFile = NoFile
    /\ metaFile = NoFile
    /\ call = [NoCall EXCEPT !.op = "init"]
    /\ ret = Returned(EmptyResult)
    /\ mapper = NewMapper
    /\ artifact = NoArtifact
    /\ rq = <<>>
    /\ rres = NoAnswer
    /\ retr = NoRetrieval
    /\ cls = NoClass
    /\ ctx = NoContext
    /\ embedCall = NoEmbed
    /\ persisting = NotPersisting

IndexNext ==
    \/ Construct /\ UNCHANGED <<resolverVars, retrieverVars, cls, contextVars, persisting>>
    \/ Add /\ UNCHANGED <<resolverVars, retrieverVars, cls, contextVars, persisting>>
    \/ Persist /\ UNCHANGED <<resolverVars, retrieverVars, cls, contextVars, persisting>>
    \/ Query /\ UNCHANGED <<resolverVars, retrieverVars, cls, contextVars, persisting>>

SpecIndex == IndexInit /\ [][IndexNext]_vars

(***************************************************************************)
(* persist() step by step, with a crash of the process at any point and a  *)
(* new FaissIndexer on the location afterwards.  persist() writes the      *)
(* index file in place, then the sidecar in place.                         *)
(***************************************************************************)
\* FaissIndexer.__init__ with _load: what the files give, or that it raises
\* (faiss.read_index or json.load on a file that was cut short)
LoadRaises == IsTorn(indexFile) \/ IsTorn(metaFile)

\* add with lists as long as the batch, as index_chunks_with_ollama_faiss
\* calls it
CrashAdd ==
    /\ persisting.pc = "idle"
    /\ \E cs \in SeqsUpTo(ChunkPool, MaxBatch) \ {<<>>} :
          /\ Len(index.vecs) + Len(cs) <= MaxDocs
          /\ AddCall(EmbOf(cs, 2, MaxDim), ListIds(cs, Len(cs)),
                     ListMetas(cs, Len(cs)), ListDocs(cs, Len(cs)))
    /\ UNCHANGED persisting

\* persist(), first write: faiss.write_index(self.index, self.index_path)
PersistWriteIndex ==
    /\ persisting.pc = "idle"
    /\ index.open
    /\ indexFile' = WriteIndex(index)
    /\ persisting' = [persisting EXCEPT
                         !.pc = "index_written",
                         !.new = [indexFile |-> WriteIndex(index),
                                  metaFile |-> Sidecar(index, ids, metadatas, documents)]]
    /\ UNCHANGED <<index, ids, metadatas, documents, metaFile, call, ret>>

\* persist(), second write: json.dump(sidecar, f), then persist() returns
PersistWriteSidecar ==
    /\ persisting.pc = "index_written"
    /\ metaFile' = Sidecar(index, ids, metadatas, documents)
    /\ call' = [NoCall EXCEPT !.op = "persist"]
    /\ ret' = Returned(EmptyResult)
    /\ persisting' = [persisting EXCEPT !.pc = "idle", !.old = persisting.new]
    /\ UNCHANGED <<index, ids, metadatas, documents, indexFile>>

\* the process dies during persist(): while the index file is written,
\* between the two writes, or while the sidecar is written.  The instance
\* is lost; the files stay as the crash left them.
Crash ==
    /\ \/ /\ persisting.pc = "idle"
          /\ index.open
          /\ indexFile' = TornFile
          /\ persisting' = [persisting EXCEPT
                               !.pc = "crashed",
                               !.new = [indexFile |-> WriteIndex(index),
                                        metaFile |-> Sidecar(index, ids, metadatas,
                                                             documents)]]
          /\ UNCHANGED metaFile
       \/ /\ persisting.pc = "index_written"
          /\ persisting' = [persisting EXCEPT !.pc = "crashed"]
          /\ UNCHANGED <<indexFile, metaFile>>
       \/ /\ persisting.pc = "index_written"
          /\ metaFile' = TornFile
          /\ persisting' = [persisting EXCEPT !.pc = "crashed"]
          /\ UNCHANGED indexFile
    /\ index' = NoIndex
    /\ ids' = <<>>
    /\ metadatas' = <<>>
    /\ documents' = <<>>
    /\ call' = NoCall
    /\ ret' = Returned(EmptyResult)

\* FaissIndexer(persist_dir, index_name) after the crash
Reopen ==
    /\ persisting.pc = "crashed"
    /\ persisting' = [persisting EXCEPT !.pc = "reopened"]
    /\ IF indexFile.exists /\ metaFile.exists /\ LoadRaises
       THEN /\ call' = [NoCall EXCEPT !.op = "init"]
            /\ ret' = Raised
            /\ UNCHANGED <<index, ids, metadatas, documents, indexFile, metaFile>>
       ELSE Construct

CrashInit ==
    /\ IndexInit

CrashNext ==
    \/ CrashAdd /\ UNCHANGED <<resolverVars, retrieverVars, cls, contextVars>>
    \/ PersistWriteIndex /\ UNCHANGED <<resolverVars, retrieverVars, cls, contextVars>>
    \/ PersistWriteSidecar /\ UNCHANGED <<resolverVars, retrieverVars, cls, contextVars>>
    \/ Crash /\ UNCHANGED <<resolverVars, retrieverVars, cls, contextVars>>
    \/ Reopen /\ UNCHANGED <<resolverVars, retrieverVars, cls, contextVars>>

SpecCrash == CrashInit /\ [][CrashNext]_vars

(***************************************************************************)
(* The three patterns of context_retriever.py, matched on character        *)
(* sequences the way the re module matches them.                           *)
(***************************************************************************)
\* \s* from position p: the first position at or after p that is no space
SkipSpaces(s, p) ==
    IF \E i \in p..Len(s) : ~IsSpace(s[i])
    THEN CHOOSE i \in p..Len(s) : ~IsSpace(s[i]) /\ \A j \in p..(i - 1) : IsSpace(s[j])
    ELSE Len(s) + 1

\* the last position of the run of digits that starts at p (p - 1 if none)
DigitRunEnd(s, p) ==
    IF p <= Len(s) /\ IsDigit(s[p])
    THEN CHOOSE e \in p..Len(s) :
            /\ \A j \in p..e : IsDigit(s[j])
            /\ (e = Len(s) \/ ~IsDigit(s[e + 1]))
    ELSE p - 1

\* "#?" at position p
SkipHash(s, p) == IF p <= Len(s) /\ s[p] = "#" THEN p + 1 ELSE p

\* where the digits start after "rule" found at position at: \s*#?\s*
DigitsAfterRule(s, at) == SkipSpaces(s, SkipHash(s, SkipSpaces(s, at + 4)))

NoMatch == [found |-> FALSE, group |-> <<>>]
Matched(g) == [found |-> TRUE, group |-> g]

\* (\d{1,4}) at p followed by \s*$
DigitsToEnd(s, p) ==
    LET e == DigitRunEnd(s, p)
    IN  IF e - p + 1 \in 1..4 /\ SkipSpaces(s, e + 1) = Len(s) + 1
        THEN Matched(Slice(s, p, e)) ELSE NoMatch

\* EXACT_RULE_PAT.match(q):  ^\s*rule\s*#?\s*(\d{1,4})\s*$  with re.I
EXACT_RULE_PAT(q) ==
    LET at == SkipSpaces(q, 1)
    IN  IF StartsAtLower(q, RuleWord, at)
        THEN DigitsToEnd(q, DigitsAfterRule(q, at)) ELSE NoMatch

\* JUST_NUMBER_PAT.match(q):  ^\s*(\d{1,4})\s*$
JUST_NUMBER_PAT(q) == DigitsToEnd(q, SkipSpaces(q, 1))

\* \b between positions p - 1 and p
WordBoundary(s, p) ==
    LET before == p - 1 >= 1 /\ p - 1 <= Len(s) /\ IsWordChar(s[p - 1])
        after  == p >= 1 /\ p <= Len(s) /\ IsWordChar(s[p])
    IN  before # after

\* RULE_PAT matched with "rule" starting at position at:
\* \brule\b\s*#?\s*(\d{1,4})\b  with re.I
RulePatAt(q, at) ==
    LET p == DigitsAfterRule(q, at)
        e == DigitRunEnd(q, p)
    IN  /\ StartsAtLower(q, RuleWord, at)
        /\ WordBoundary(q, at)
        /\ WordBoundary(q, at + 4)
        /\ e - p + 1 \in 1..4
        /\ WordBoundary(q, e + 1)

\* RULE_PAT.search(q): the leftmost match
RULE_PAT(q) ==
    IF \E at \in 1..Len(q) : RulePatAt(q, at)
    THEN LET at == CHOOSE a \in 1..Len(q) :
                      RulePatAt(q, a) /\ \A b \in 1..(a - 1) : ~RulePatAt(q, b)
             p == DigitsAfterRule(q, at)
         IN  Matched(Slice(q, p, DigitRunEnd(q, p)))
    ELSE NoMatch

(***************************************************************************)
(* DynamicRuleMapper                                                       *)
(***************************************************************************)
DictHas(d, k) == \E i \in 1..Len(d) : d[i].k = k
DictGet(d, k, default) ==
    IF DictHas(d, k) THEN d[CHOOSE i \in 1..Len(d) : d[i].k = k].v ELSE default
\* d[k] = v: a new key goes last, an existing key keeps its place
DictSet(d, k, v) ==
    IF DictHas(d, k) THEN [i \in 1..Len(d) |-> IF d[i].k = k THEN [k |-> k, v |-> v] ELSE d[i]]
    ELSE Append(d, [k |-> k, v |-> v])

InList(l, x) == \E i \in 1..Len(l) : l[i] = x

\* str(int(s)) for a string of digits
RECURSIVE IntStr(_)
IntStr(s) == IF Len(s) > 1 /\ s[1] = "0" THEN IntStr(Tail(s)) ELSE s

\* str.split(): the words between runs of white space
RECURSIVE SplitFrom(_, _)
SplitFrom(s, p) ==
    LET b == SkipSpaces(s, p)
    IN  IF b > Len(s) THEN <<>>
        ELSE LET e == IF \E i \in b..Len(s) : IsSpace(s[i])
                      THEN (CHOOSE i \in b..Len(s) :
                               IsSpace(s[i]) /\ \A j \in b..(i - 1) : ~IsSpace(s[j])) - 1
                      ELSE Len(s)
             IN  <<Slice(s, b, e)>> \o SplitFrom(s, e + 1)
Split(s) == SplitFrom(s, 1)

RulePrefix == <<"r", "u", "l", "e", " ">>
RuleHashPrefix == <<"r", "u", "l", "e", "#">>
RuleSuffix == <<" ", "r", "u", "l", "e">>

\* the search patterns load_from_artifacts builds for one record
RecordPatterns(rule_id, alert_name) ==
    << RulePrefix \o rule_id,
       RuleHashPrefix \o rule_id,
       RulePrefix \o IntStr(rule_id),
       RuleHashPrefix \o IntStr(rule_id) >>
    \o (IF alert_name # <<>>
        THEN << Lower(alert_name),
                Lower(alert_name) \o RuleSuffix,
                RulePrefix \o rule_id \o <<" ">> \o Lower(alert_name) >>
        ELSE <<>>)

\* the body of the loop over rule_keys, for one item
LoadRecord(m, item) ==
    LET raw_id     == Strip(item.rule_id)
        alert_name == Strip(item.alert_name)
        rule_id    == ZFill(raw_id, 3)
        alert_key  == Strip(Lower(alert_name))
        names      == DictGet(m.rule_to_alert_map, rule_id, <<>>)
    IN  IF raw_id = <<>> THEN m
        ELSE [loaded |-> m.loaded,
              rule_to_alert_map |->
                  IF alert_name = <<>> THEN m.rule_to_alert_map
                  ELSE DictSet(m.rule_to_alert_map, rule_id,
                               IF InList(names, alert_name) THEN names
                               ELSE Append(names, alert_name)),
              alert_to_rule_map |->
                  IF alert_name = <<>> \/ DictHas(m.alert_to_rule_map, alert_key)
                  THEN m.alert_to_rule_map
                  ELSE DictSet(m.alert_to_rule_map, alert_key, rule_id),
              rule_patterns |->
                  DictSet(m.rule_patterns, rule_id, RecordPatterns(rule_id, alert_name))]

RECURSIVE LoadRecords(_, _)
LoadRecords(m, items) ==
    IF items = <<>> THEN m ELSE LoadRecords(LoadRecord(m, Head(items)), Tail(items))

\* DynamicRuleMapper.load_from_artifacts: a missing file returns at once, a
\* file json.load rejects is reported and leaves the mapper not loaded
load_from_artifacts(m, art) ==
    IF ~art.exists \/ ~art.valid THEN m
    ELSE [LoadRecords(m, art.records) EXCEPT !.loaded = TRUE]

\* number of words of the phrase found in the query ("word in query_lower")
RECURSIVE CountIn(_, _)
CountIn(words, text) ==
    IF words = <<>> THEN 0
    ELSE (IF Contains(text, Head(words)) THEN 1 ELSE 0) + CountIn(Tail(words), text)

DirectAlertHit(phrase, query_lower) == Contains(query_lower, phrase)

\* matches >= len(alert_words) * 0.6, for a phrase of more than one word
PartialAlertHit(phrase, query_lower) ==
    LET alert_words == Split(phrase)
    IN  /\ Len(alert_words) > 1
        /\ 10 * CountIn(alert_words, query_lower) >= 6 * Len(alert_words)

\* the first loop: the first entry, in insertion order, whose phrase is in
\* the query
FirstDirect(d, query_lower) ==
    IF \E i \in 1..Len(d) : DirectAlertHit(d[i].k, query_lower)
    THEN Matched(d[CHOOSE i \in 1..Len(d) :
                     /\ DirectAlertHit(d[i].k, query_lower)
                     /\ \A j \in 1..(i - 1) : ~DirectAlertHit(d[j].k, query_lower)].v)
    ELSE NoMatch

\* the second loop: the first entry whose phrase matches by its words
FirstPartial(d, query_lower) ==
    IF \E i \in 1..Len(d) : PartialAlertHit(d[i].k, query_lower)
    THEN Matched(d[CHOOSE i \in 1..Len(d) :
                     /\ PartialAlertHit(d[i].k, query_lower)
                     /\ \A j \in 1..(i - 1) : ~PartialAlertHit(d[j].k, query_lower)].v)
    ELSE NoMatch

\* variant: the word-wise loop runs before the substring loop
find_rule_from_queryPartialFirst(m, q) ==
    LET query_lower == Strip(Lower(q))
    IN  IF ~m.loaded THEN NoMatch
        ELSE IF FirstPartial(m.alert_to_rule_map, query_lower).found
        THEN FirstPartial(m.alert_to_rule_map, query_lower)
        ELSE FirstDirect(m.alert_to_rule_map, query_lower)

\* DynamicRuleMapper.find_rule_from_query; NoMatch stands for None
find_rule_from_query(m, q) ==
    LET query_lower == Strip(Lower(q))
    IN  IF ~m.loaded THEN NoMatch
        ELSE IF FirstDirect(m.alert_to_rule_map, query_lower).found
        THEN FirstDirect(m.alert_to_rule_map, query_lower)
        ELSE FirstPartial(m.alert_to_rule_map, query_lower)

\* the mapper after the lazy load in parse_rule_id / retrieve_context
EnsureLoaded(m, art) == IF ~m.loaded THEN load_from_artifacts(m, art) ELSE m

\* whether parse_rule_id(q) gets as far as the mapper
ReachesMapper(q) ==
    /\ q # <<>>
    /\ ~EXACT_RULE_PAT(q).found
    /\ ~RULE_PAT(q).found
    /\ ~JUST_NUMBER_PAT(q).found

\* parse_rule_id: the returned string and the module-level mapper it leaves
ParseOutcome(m, art, q) ==
    LET exact    == EXACT_RULE_PAT(q)
        embedded == RULE_PAT(q)
        number   == JUST_NUMBER_PAT(q)
        loaded   == EnsureLoaded(m, art)
        dynamic_rule == find_rule_from_query(loaded, q)
    IN  IF q = <<>> THEN [rule_id |-> <<>>, mapper |-> m]
        ELSE IF exact.found THEN [rule_id |-> ZFill(exact.group, 3), mapper |-> m]
        ELSE IF embedded.found THEN [rule_id |-> ZFill(embedded.group, 3), mapper |-> m]
        ELSE IF number.found THEN [rule_id |-> ZFill(number.group, 3), mapper |-> m]
        ELSE IF dynamic_rule.found /\ dynamic_rule.group # <<>>
        THEN [rule_id |-> dynamic_rule.group, mapper |-> loaded]
        ELSE [rule_id |-> <<>>, mapper |-> loaded]

parse_rule_id(m, art, q) == ParseOutcome(m, art, q).rule_id

(***************************************************************************)
(* _retrieve_with_dynamic_matching: merge of the per-variant results, with *)
(* the rule-aware boost.  A boost factor is kept in tenths (2.5 is 25), so *)
(* a boosted score is the raw score times the factor in tenths.            *)
(***************************************************************************)
\* re.search(r"rule\s*#?\s*(\d+)", d_lower) with "rule" at position at
OtherRuleAt(d, at) ==
    /\ StartsAt(d, RuleWord, at)
    /\ DigitRunEnd(d, DigitsAfterRule(d, at)) >= DigitsAfterRule(d, at)

\* the leftmost match and its group
OtherRuleMatch(d) ==
    IF \E at \in 1..Len(d) : OtherRuleAt(d, at)
    THEN LET at == CHOOSE a \in 1..Len(d) :
                      OtherRuleAt(d, a) /\ \A b \in 1..(a - 1) : ~OtherRuleAt(d, b)
             p == DigitsAfterRule(d, at)
         IN  Matched(Slice(d, p, DigitRunEnd(d, p)))
    ELSE NoMatch

\* exact_patterns of the merge loop
ExactPatterns(rule_id) ==
    << RuleHashPrefix \o rule_id, RulePrefix \o rule_id, RulePrefix \o IntStr(rule_id) >>

AnyIn(patterns, text) == \E i \in 1..Len(patterns) : Contains(text, patterns[i])

\* DynamicRuleMapper.get_rule_patterns
get_rule_patterns(m, rule_id) == DictGet(m.rule_patterns, rule_id, <<>>)

LowerAll(patterns) == [i \in 1..Len(patterns) |-> Lower(patterns[i])]

\* the boost_factor computed in the merge loop (if / elif / elif)
boost_factor(d, rule_id, m) ==
    LET d_lower == Lower(d)
        other   == OtherRuleMatch(d_lower)
    IN  IF rule_id = <<>> \/ d = <<>> THEN 10
        ELSE IF AnyIn(ExactPatterns(rule_id), d_lower) THEN 25
        ELSE IF m.loaded
        THEN (IF AnyIn(LowerAll(get_rule_patterns(m, rule_id)), d_lower)
              THEN Max(10, 20) ELSE 10)
        ELSE IF Contains(d_lower, RuleWord)
        THEN (IF other.found
              THEN (IF ZFill(other.group, 3) # rule_id THEN 5 ELSE 10)
              ELSE 12)
        ELSE 10

Hit(i, s, d, m) == [id |-> i, score |-> s, doc |-> d, meta |-> m]

\* zip(res["ids"], res["scores"], res["documents"], res["metadatas"])
ZipResult(res) ==
    [n \in 1..Min(Min(Len(res.ids), Len(res.scores)),
                  Min(Len(res.documents), Len(res.metadatas))) |->
        Hit(res.ids[n], res.scores[n], res.documents[n], res.metadatas[n])]

SeenIn(acc, id) == \E n \in 1..Len(acc) : acc[n].id = id

\* the hits of one variant, each with its boosted score
Boosted(hits, rule_id, m) ==
    [i \in 1..Len(hits) |->
        [hits[i] EXCEPT !.score = hits[i].score * boost_factor(hits[i].doc, rule_id, m)]]

\* variant: a later occurrence of an id replaces the kept hit when its
\* boosted score is higher, so that an id keeps the first of its hits with
\* the highest score
MergeHitsKeepBest(acc, hits, rule_id, m) ==
    LET all == acc \o Boosted(hits, rule_id, m)
        best(i) == CHOOSE b \in i..Len(all) :
                      /\ all[b].id = all[i].id
                      /\ \A j \in i..Len(all) :
                             all[j].id = all[i].id => all[j].score <= all[b].score
                      /\ \A j \in i..(b - 1) :
                             all[j].id = all[i].id => all[j].score < all[b].score
    IN  PickAt([i \in 1..Len(all) |-> all[best(i)]],
               {i \in 1..Len(all) : \A j \in 1..(i - 1) : all[j].id # all[i].id})

\* the inner loop: the hits of one variant appended to the running lists,
\* but for an id that is in seen (it is in the lists, or comes earlier
\* among these hits)
MergeHits(acc, hits, rule_id, m) ==
    acc \o PickAt(Boosted(hits, rule_id, m),
                  {i \in 1..Len(hits) :
                      /\ ~SeenIn(acc, hits[i].id)
                      /\ \A j \in 1..(i - 1) : hits[j].id # hits[i].id})

\* the outer loop over the variants: over the first half of them, then over
\* the others with the lists that this leaves
RECURSIVE MergeVariants(_, _, _, _)
MergeVariants(acc, results, rule_id, m) ==
    IF results = <<>> THEN acc
    ELSE IF Len(results) = 1 THEN MergeHits(acc, ZipResult(results[1]), rule_id, m)
    ELSE TheOne({MergeVariants(merged, SubSeq(results, Len(results) \div 2 + 1, Len(results)),
                               rule_id, m) :
                    merged \in {MergeVariants(acc, SubSeq(results, 1, Len(results) \div 2),
                                              rule_id, m)}})

\* sorted(range(len(ids)), key=scores, reverse=True): stable, best first;
\* a hit comes after the hits of a higher score and the earlier hits of its
\* own score
SortByScore(hits) ==
    LET before(i) == {j \in 1..Len(hits) :
                        \/ hits[j].score > hits[i].score
                        \/ hits[j].score = hits[i].score /\ j < i}
    IN  <<>> \o [n \in 1..Len(hits) |->
                    hits[CHOOSE i \in 1..Len(hits) : Cardinality(before(i)) = n - 1]]

UnzipHits(hits) ==
    [ids       |-> [n \in 1..Len(hits) |-> hits[n].id],
     scores    |-> [n \in 1..Len(hits) |-> hits[n].score],
     documents |-> [n \in 1..Len(hits) |-> hits[n].doc],
     metadatas |-> [n \in 1..Len(hits) |-> hits[n].meta]]

\* results[v] is what indexer.query returned for the v-th variant
_retrieve_with_dynamic_matching(results, rule_id, m) ==
    UnzipHits(SortByScore(MergeVariants(<<>>, results, rule_id, m)))

(***************************************************************************)
(* classify_query (context_retriever.py, and the older one of              *)
(* retriever_qa.py)                                                        *)
(***************************************************************************)
basic_rule_indicators ==
    << <<"r", "u", "l", "e">>,
       <<"r", "e", "m", "e", "d", "i", "a", "t", "i", "o", "n">>,
       <<"p", "r", "o", "c", "e", "d", "u", "r", "e">>,
       <<"s", "t", "e", "p", "s">> >>

\* the tracker keywords of context_retriever.classify_query
TrackerKeywords ==
    << <<"c", "o", "u", "n", "t">>,
       <<"c", "o", "u", "n", "t", "s">>,
       <<"t", "o", "t", "a", "l">>,
       <<"p", "r", "i", "o", "r", "i", "t", "y">>,
       <<"p", "r", "i", "o", "r", "i", "t", "i", "e", "s">>,
       <<"s", "t", "a", "t", "u", "s">>,
       <<"s", "t", "a", "t", "u", "s", "e", "s">>,
       <<"o", "p", "e", "n", "e", "d">>,
       <<"c", "l", "o", "s", "e", "d">>,
       <<"r", "e", "s", "o", "l", "v", "e", "d">>,
       <<"s", "l", "a">>,
       <<"o", "w", "n", "e", "r">>,
       <<"a", "s", "s", "i", "g", "n", "e", "e">>,
       <<"i", "n", "c", "i", "d", "e", "n", "t">>,
       <<"t", "i", "c", "k", "e", "t">>,
       <<"d", "a", "i", "l", "y">>,
       <<"w", "e", "e", "k", "l", "y">>,
       <<"s", "u", "m", "m", "a", "r", "y">>,
       <<"d", "a", "s", "h", "b", "o", "a", "r", "d">> >>

\* the tracker keywords of retriever_qa.classify_query
TrackerKeywordsQa ==
    << <<"c", "o", "u", "n", "t">>,
       <<"c", "o", "u", "n", "t", "s">>,
       <<"t", "o", "t", "a", "l">>,
       <<"p", "r", "i", "o", "r", "i", "t", "y">>,
       <<"p", "r", "i", "o", "r", "i", "t", "i", "e", "s">>,
       <<"s", "t", "a", "t", "u", "s">>,
       <<"s", "t", "a", "t", "u", "s", "e", "s">>,
       <<"o", "p", "e", "n", "e", "d">>,
       <<"c", "l", "o", "s", "e", "d">>,
       <<"r", "e", "s", "o", "l", "v", "e", "d">>,
       <<"s", "l", "a">>,
       <<"o", "w", "n", "e", "r">>,
       <<"a", "s", "s", "i", "g", "n", "e", "e">>,
       <<"r", "e", "p", "o", "r", "t", "e", "d", " ", "t", "i", "m", "e">>,
       <<"r", "e", "s", "p", "o", "n", "s", "e", " ", "t", "i", "m", "e">>,
       <<"r", "e", "s", "o", "l", "v", "e", "d", " ", "t", "i", "m", "e">>,
       <<"i", "n", "c", "i", "d", "e", "n", "t">>,
       <<"t", "i", "c", "k", "e", "t">>,
       <<"d", "a", "i", "l", "y">>,
       <<"w", "e", "e", "k", "l", "y">>,
       <<"s", "u", "m", "m", "a", "r", "y">>,
       <<"d", "a", "s", "h", "b", "o", "a", "r", "d">>,
       <<"c", "a", "t", "e", "g", "o", "r", "y">>,
       <<"c", "a", "t", "e", "g", "o", "r", "i", "e", "s">> >>

\* classify_query of context_retriever.py after its parse_rule_id call, which
\* returned out.rule_id and left the module-level mapper out.mapper
ClassifyFrom(q, out) ==
    LET s       == Lower(q)
        rule_id == out.rule_id
        is_exact_rule   == EXACT_RULE_PAT(q).found \/ JUST_NUMBER_PAT(q).found
        is_basic_rule   == AnyIn(basic_rule_indicators, s)
        is_dynamic_rule == rule_id # <<>> /\ out.mapper.loaded
        is_rule         == is_basic_rule \/ is_dynamic_rule
        tracker_signals == AnyIn(TrackerKeywords, s)
    IN  [cls |-> [by            |-> "context_retriever",
                  about_rule    |-> is_rule,
                  about_tracker |-> tracker_signals \/ ~is_rule,
                  is_exact_rule |-> is_exact_rule,
                  rule_id       |-> rule_id,
                  confidence    |-> IF is_exact_rule THEN "high"
                                    ELSE IF rule_id # <<>> THEN "medium" ELSE "low",
                  is_dynamic_match |-> is_dynamic_rule],
         mapper |-> out.mapper]

\* classify_query of context_retriever.py: the dict it returns and the
\* module-level mapper it leaves
ClassifyOutcome(m, art, q) == ClassifyFrom(q, ParseOutcome(m, art, q))

classify_query(m, art, q) == ClassifyOutcome(m, art, q).cls

\* parse_rule_id of retriever_qa.py: the embedded pattern, then the bare number
parse_rule_id_qa(q) ==
    IF q = <<>> THEN <<>>
    ELSE IF RULE_PAT(q).found THEN ZFill(RULE_PAT(q).group, 3)
    ELSE IF JUST_NUMBER_PAT(q).found THEN ZFill(JUST_NUMBER_PAT(q).group, 3)
    ELSE <<>>

\* variant: the tracker bucket is not the default
classify_query_qaNoDefault(q) ==
    LET s == Lower(q)
        is_rule ==
            \/ parse_rule_id_qa(q) # <<>>
            \/ AnyIn(basic_rule_indicators, s)
            \/ (Contains(s, <<"a", "s", "s", "i", "g", "n", "e", "d">>) /\ Contains(s, <<"p", "r", "i", "v", "i", "l", "e", "g", "e", "d">>))
            \/ Contains(s, <<"p", "r", "i", "v", "i", "l", "e", "g", "e", "d", " ", "r", "o", "l", "e">>)
        tracker_signals == AnyIn(TrackerKeywordsQa, s)
    IN  [by            |-> "retriever_qa",
         about_rule    |-> is_rule,
         about_tracker |-> tracker_signals]

\* classify_query of retriever_qa.py
classify_query_qa(q) ==
    LET s == Lower(q)
        is_rule ==
            \/ parse_rule_id_qa(q) # <<>>
            \/ AnyIn(basic_rule_indicators, s)
            \/ (Contains(s, <<"a", "s", "s", "i", "g", "n", "e", "d">>) /\ Contains(s, <<"p", "r", "i", "v", "i", "l", "e", "g", "e", "d">>))
            \/ Contains(s, <<"p", "r", "i", "v", "i", "l", "e", "g", "e", "d", " ", "r", "o", "l", "e">>)
        tracker_signals == AnyIn(TrackerKeywordsQa, s)
    IN  [by            |-> "retriever_qa",
         about_rule    |-> is_rule,
         about_tracker |-> tracker_signals \/ ~is_rule]

(***************************************************************************)
(* Query expansion (expand_tracker_queries, expand_rulebook_queries)       *)
(***************************************************************************)
\* DynamicRuleMapper.get_alert_names
get_alert_names(m, rule_id) == DictGet(m.rule_to_alert_map, rule_id, <<>>)

\* [v.strip() for v in variants if v.strip()]
StripAll(variants) ==
    LET stripped == [i \in 1..Len(variants) |-> Strip(variants[i])]
    IN  SelectSeq(stripped, LAMBDA v : v # <<>>)

\* list(dict.fromkeys(l)): the first occurrence of each entry, in order
Dedupe(l) == PickAt(l, {i \in 1..Len(l) : \A j \in 1..(i - 1) : l[j] # l[i]})

expand_tracker_queries(q) ==
    LET base == Strip(q)
    IN  Dedupe(StripAll(<< base,
                           base \o <<" ", "t", "r", "a", "c", "k", "e", "r">>,
                           base \o <<" ", "i", "n", "c", "i", "d", "e", "n", "t">>,
                           base \o <<" ", "s", "t", "a", "t", "u", "s", " ", "p", "r", "i", "o", "r", "i", "t", "y", " ", "o", "w", "n", "e", "r">> >>))

\* [alert_name, f"{alert_name} procedure", f"{alert_name} remediation"] for
\* each alert name of the rule
RECURSIVE AlertVariants(_)
AlertVariants(alert_names) ==
    IF alert_names = <<>> THEN <<>>
    ELSE << Head(alert_names),
            Head(alert_names) \o <<" ", "p", "r", "o", "c", "e", "d", "u", "r", "e">>,
            Head(alert_names) \o <<" ", "r", "e", "m", "e", "d", "i", "a", "t", "i", "o", "n">> >>
           \o AlertVariants(Tail(alert_names))

expand_rulebook_queries(q, rule_id, m) ==
    LET base == Strip(q)
        rule_num == IntStr(rule_id)
    IN  Dedupe(StripAll(
            <<base>>
            \o (IF rule_id # <<>>
                THEN << <<"R", "u", "l", "e", " ">> \o rule_id,
                        <<"R", "u", "l", "e", "#">> \o rule_id,
                        <<"R", "u", "l", "e", " ">> \o rule_num,
                        <<"R", "u", "l", "e", "#">> \o rule_num,
                        <<"R", "u", "l", "e", " ">> \o rule_id \o <<" ", "p", "r", "o", "c", "e", "d", "u", "r", "e">>,
                        <<"R", "u", "l", "e", " ">> \o rule_id \o <<" ", "r", "e", "m", "e", "d", "i", "a", "t", "i", "o", "n">>,
                        <<"R", "u", "l", "e", " ">> \o rule_id \o <<" ", "i", "n", "v", "e", "s", "t", "i", "g", "a", "t", "i", "o", "n", " ", "s", "t", "e", "p", "s">> >>
                     \o (IF m.loaded
                         THEN get_rule_patterns(m, rule_id)
                                \o AlertVariants(get_alert_names(m, rule_id))
                         ELSE <<>>)
                ELSE <<>>)
            \o << base \o <<" ", "r", "u", "l", "e", "b", "o", "o", "k">>,
                  base \o <<" ", "p", "r", "o", "c", "e", "d", "u", "r", "e", " ", "s", "t", "e", "p", "s", " ", "r", "e", "m", "e", "d", "i", "a", "t", "i", "o", "n">> >>))

\* tracker_qs + rule_qs of retrieve_context
QueryVariants(q, c, m) ==
    (IF c.about_tracker THEN expand_tracker_queries(q) ELSE <<q>>)
      \o (IF c.about_rule THEN expand_rulebook_queries(q, c.rule_id, m) ELSE <<q>>)

(***************************************************************************)
(* json.loads on a document text, for the JSON the tracker chunks hold:    *)
(* objects, strings without escapes, non-negative integers and null, with  *)
(* white space between tokens.  Any other text is a text json.loads        *)
(* rejects.                                                                *)
(***************************************************************************)
JNull == [t |-> "null", s |-> <<>>, members |-> <<>>]
JStr(s) == [t |-> "str", s |-> s, members |-> <<>>]
JNum(s) == [t |-> "num", s |-> s, members |-> <<>>]
JObj(members) == [t |-> "obj", s |-> <<>>, members |-> members]

JsonFail == [ok |-> FALSE, next |-> 0, val |-> JNull]
JsonOk(next, val) == [ok |-> TRUE, next |-> next, val |-> val]

\* a string token that opens at p: up to the next quote
JsonStringAt(s, p) ==
    IF p <= Len(s) /\ s[p] = "\"" /\ \E e \in (p + 1)..Len(s) : s[e] = "\""
    THEN LET e == CHOOSE c \in (p + 1)..Len(s) :
                     s[c] = "\"" /\ \A b \in (p + 1)..(c - 1) : s[b] # "\""
         IN  JsonOk(e + 1, JStr(Slice(s, p + 1, e - 1)))
    ELSE JsonFail

\* an integer token at p: a run of digits without a leading zero
JsonNumberAt(s, p) ==
    LET e == DigitRunEnd(s, p)
    IN  IF e >= p /\ (e = p \/ s[p] # "0")
        THEN JsonOk(e + 1, JNum(Slice(s, p, e))) ELSE JsonFail

RECURSIVE JsonValueAt(_, _)
RECURSIVE JsonMembersAt(_, _, _)

\* the members of an object from position p (a key is expected there); a
\* repeated key keeps its place and takes the later value, as in a dict
JsonMembersAt(s, p, acc) ==
    LET key   == JsonStringAt(s, p)
        colon == SkipSpaces(s, key.next)
        val   == JsonValueAt(s, SkipSpaces(s, colon + 1))
        after == SkipSpaces(s, val.next)
        now   == DictSet(acc, key.val.s, val.val)
    IN  IF ~key.ok \/ colon > Len(s) \/ s[colon] # ":" THEN JsonFail
        ELSE IF ~val.ok \/ after > Len(s) THEN JsonFail
        ELSE IF s[after] = "}" THEN JsonOk(after + 1, JObj(now))
        ELSE IF s[after] = "," THEN JsonMembersAt(s, SkipSpaces(s, after + 1), now)
        ELSE JsonFail

JsonValueAt(s, p) ==
    IF p > Len(s) THEN JsonFail
    ELSE IF s[p] = "{"
    THEN (IF SkipSpaces(s, p + 1) <= Len(s) /\ s[SkipSpaces(s, p + 1)] = "}"
          THEN JsonOk(SkipSpaces(s, p + 1) + 1, JObj(<<>>))
          ELSE JsonMembersAt(s, SkipSpaces(s, p + 1), <<>>))
    ELSE IF s[p] = "\"" THEN JsonStringAt(s, p)
    ELSE IF IsDigit(s[p]) THEN JsonNumberAt(s, p)
    ELSE IF StartsAt(s, <<"n", "u", "l", "l">>, p) THEN JsonOk(p + 4, JNull)
    ELSE JsonFail

\* json.loads(d): ok is FALSE when it raises
json_loads(d) ==
    LET r == JsonValueAt(d, SkipSpaces(d, 1))
    IN  IF r.ok /\ SkipSpaces(d, r.next) = Len(d) + 1 THEN r ELSE JsonFail

(***************************************************************************)
(* Partition and filters of retrieve_context                               *)
(***************************************************************************)
\* str((meta or {}).get(key) or "").lower(), for a key that holds a string,
\* None, or is missing
MetaText(meta, key) ==
    IF key \in DOMAIN meta /\ meta[key].t = "s" THEN Lower(meta[key].s) ELSE <<>>

_is_tracker_meta(meta) ==
    \/ MetaText(meta, "doctype") = <<"t", "r", "a", "c", "k", "e", "r", "_", "r", "o", "w">>
    \/ MetaText(meta, "source") = <<"t", "r", "a", "c", "k", "e", "r", "_", "s", "h", "e", "e", "t">>
    \/ Contains(MetaText(meta, "source"), <<"t", "r", "a", "c", "k", "e", "r">>)

_is_rulebook_meta(meta) ==
    \/ MetaText(meta, "doctype") = <<"r", "u", "l", "e", "b", "o", "o", "k">>
    \/ MetaText(meta, "filetype") \in {<<"c", "s", "v">>, <<"x", "l", "s", "x">>}
    \/ Contains(MetaText(meta, "source"), RuleWord)

\* the partition loop: tracker metadata first, then rulebook metadata, then
\* the bucket of the query's default intent
InTrackerPart(h, about_tracker) ==
    \/ _is_tracker_meta(h.meta)
    \/ ~_is_rulebook_meta(h.meta) /\ about_tracker

TrackerPart(hits, about_tracker) ==
    SelectSeq(hits, LAMBDA h : InTrackerPart(h, about_tracker))
RulePart(hits, about_tracker) ==
    SelectSeq(hits, LAMBDA h : ~InTrackerPart(h, about_tracker))

\* rule_patterns of _filter_by_rule_relevance
RelevancePatterns(rule_id, m) ==
    << RuleHashPrefix \o rule_id,
       RulePrefix \o rule_id,
       RulePrefix \o IntStr(rule_id),
       RuleHashPrefix \o IntStr(rule_id) >>
      \o (IF m.loaded THEN LowerAll(get_rule_patterns(m, rule_id)) ELSE <<>>)

\* the list a hit goes to: "exact", "related" or "other"
RelevanceClass(d, rule_id, m) ==
    LET d_lower == Lower(d)
        other   == OtherRuleMatch(d_lower)
    IN  IF AnyIn(RelevancePatterns(rule_id, m), d_lower) THEN "exact"
        ELSE IF other.found
        THEN (IF ZFill(other.group, 3) # rule_id THEN "related" ELSE "exact")
        ELSE "other"

_filter_by_rule_relevance(hits, rule_id, m) ==
    IF rule_id = <<>> THEN hits
    ELSE SelectSeq(hits, LAMBDA h : RelevanceClass(h.doc, rule_id, m) = "exact")
           \o Take(SelectSeq(hits, LAMBDA h : RelevanceClass(h.doc, rule_id, m) = "related"), 2)
           \o Take(SelectSeq(hits, LAMBDA h : RelevanceClass(h.doc, rule_id, m) = "other"), 1)

\* the tracker filter of an exact rule query: the hit's text holds the rule
\* id or one of the rule's patterns
TrackerRulePatterns(rule_id, m) ==
    << rule_id, RuleHashPrefix \o rule_id, RulePrefix \o rule_id >>
      \o (IF m.loaded THEN get_rule_patterns(m, rule_id) ELSE <<>>)

FilterTrackerByRule(hits, c, m) ==
    IF c.rule_id # <<>> /\ c.is_exact_rule
    THEN SelectSeq(hits, LAMBDA h :
             AnyIn(LowerAll(TrackerRulePatterns(c.rule_id, m)), Lower(h.doc)))
    ELSE hits

\* v is not None and str(v).strip() != ""
NonNull(v) == v.t # "null" /\ (v.t = "str" => Strip(v.s) # <<>>)

RECURSIVE NonNullCount(_)
NonNullCount(members) ==
    IF members = <<>> THEN 0
    ELSE (IF NonNull(Head(members).v) THEN 1 ELSE 0) + NonNullCount(Tail(members))

\* the value whose fields are counted: data["tracker_data"] if data is a dict
\* with that key, else data
TrackerData(data) ==
    IF data.t = "obj" /\ DictHas(data.members, <<"t", "r", "a", "c", "k", "e", "r", "_", "d", "a", "t", "a">>)
    THEN DictGet(data.members, <<"t", "r", "a", "c", "k", "e", "r", "_", "d", "a", "t", "a">>, JNull)
    ELSE data

\* whether _filter_empty_tracker_rows keeps the hit: no tracker metadata,
\* or an exception (json.loads, or .values() on a value that is no dict), or
\* at least 5 fields with data
KeepsRow(h) ==
    LET parsed == json_loads(h.doc)
        tracker_data == TrackerData(parsed.val)
    IN  \/ ~_is_tracker_meta(h.meta)
        \/ ~parsed.ok
        \/ tracker_data.t # "obj"
        \/ NonNullCount(tracker_data.members) >= 5

_filter_empty_tracker_rows(hits) == SelectSeq(hits, KeepsRow)

\* variant: one hit more than k is kept
TopKPlusOne(hits, k) == Take(hits, k + 1)

\* hits[:k] for k >= 0
TopK(hits, k) == Take(hits, k)

\* 1.0 in the unit of a boosted score
ScoreOne == Scale * Scale * 10

RECURSIVE MaxScore(_)
MaxScore(hits) ==
    IF Len(hits) = 1 THEN hits[1].score
    ELSE Max(hits[1].score, MaxScore(Tail(hits)))

\* _norm: each score divided by the largest one (by 1.0 when that is 0); the
\* quotient is kept as the pair of its numerator and denominator
_norm(hits) ==
    IF hits = <<>> THEN <<>>
    ELSE LET max_s == IF MaxScore(hits) = 0 THEN ScoreOne ELSE MaxScore(hits)
         IN  [n \in 1..Len(hits) |->
                 [hits[n] EXCEPT !.score = [num |-> hits[n].score, den |-> max_s]]]

(***************************************************************************)
(* Inputs of the resolver specification                                    *)
(***************************************************************************)
MaxRecords == 2

\* rule-key records {rule_id, alert_name}
RecordPool ==
    { [rule_id |-> <<"5">>, alert_name |-> <<"A", "b", " ", "c", "d">>],
      [rule_id |-> <<" ", "1", "2", "3", "4", " ">>, alert_name |-> <<"c", "d">>],
      [rule_id |-> <<"5">>, alert_name |-> <<"a", "b", " ", "e", " ", "x">>] }

\* artifacts/rule_keys.json: missing, unreadable, or a list of records
Artifacts ==
    {NoArtifact, [exists |-> TRUE, valid |-> FALSE, records |-> <<>>]}
      \cup {[exists |-> TRUE, valid |-> TRUE, records |-> rs] :
               rs \in SeqsUpTo(RecordPool, MaxRecords)}

\* spellings of rule numbers
NumberPool ==
    { <<"2">>,
      <<"0", "0", "2">>,
      <<"0", "0", "0", "2">>,
      <<"1", "4">>,
      <<"1", "2", "3">>,
      <<"1", "2", "3", "4">>,
      <<"1", "2", "3", "4", "5">> }
RuleSpellings == {<<"r", "u", "l", "e">>, <<"R", "u", "L", "E">>}
Separators == {<<>>, <<" ">>, <<"#">>}

\* text around a rule mention: nothing, other words, learned alert words
BeforePool == {<<>>, <<"x">>, <<"a", "b", " ", "c", "d", " ">>}
MiddlePool == {<<>>, <<"r", "u", "l", "e", " ", "2">>, <<"7">>, <<"r", "u", "l", "e">>}
AfterPool == {<<>>, <<"x">>, <<" ", "c", "d", " ", "a", "b">>, <<" ", "e", " ", "a", "b">>}

Queries ==
    NumberPool
      \cup {w \o sep \o n : w \in RuleSpellings, sep \in Separators, n \in NumberPool}
      \cup {b \o m \o a : b \in BeforePool, m \in MiddlePool, a \in AfterPool}

(***************************************************************************)
(* Actions of the resolver specification                                   *)
(***************************************************************************)
\* one call parse_rule_id(q), with the lazy load of the mapper it may trigger
ParseRuleId ==
    \E q \in Queries :
      \E out \in {ParseOutcome(mapper, artifact, q)} :
        /\ rq' = q
        /\ rres' = [op |-> "parse_rule_id", rule_id |-> out.rule_id]
        /\ mapper' = out.mapper
        /\ cls' = NoClass
        /\ UNCHANGED artifact

\* queries handed to classify_query: with and without a rule number, a
\* procedural keyword, a tracker keyword, a learned alert phrase
ClassifyQueries ==
    { <<>>,
      <<"2">>,
      <<"r", "u", "l", "e", " ", "2">>,
      <<"x">>,
      <<"s", "t", "e", "p", "s">>,
      <<"s", "t", "a", "t", "u", "s">>,
      <<"a", "b", " ", "c", "d">>,
      <<"c", "d", " ", "a", "b", " ", "s", "t", "a", "t", "u", "s">>,
      <<"R", "u", "l", "e", " ", "5", " ", "s", "l", "a">>,
      <<"r", "e", "m", "e", "d", "i", "a", "t", "i", "o", "n", " ", "x">>,
      <<"p", "r", "o", "c", "e", "d", "u", "r", "e">>,
      <<"r", "u", "l", "e", "x", " ", "o", "w", "n", "e", "r">>,
      <<"p", "r", "i", "v", "i", "l", "e", "g", "e", "d", " ", "r", "o", "l", "e">>,
      <<"a", "s", "s", "i", "g", "n", "e", "d", " ", "x">> }

\* one call classify_query(q) of context_retriever.py
ClassifyQuery ==
    \E q \in ClassifyQueries :
      \E out \in {ClassifyOutcome(mapper, artifact, q)} :
        /\ rq' = q
        /\ cls' = out.cls
        /\ mapper' = out.mapper
        /\ rres' = NoAnswer
        /\ UNCHANGED artifact

\* one call classify_query(q) of retriever_qa.py
ClassifyQueryQa ==
    \E q \in ClassifyQueries :
        /\ rq' = q
        /\ cls' = classify_query_qa(q)
        /\ rres' = NoAnswer
        /\ UNCHANGED <<mapper, artifact>>

ResolverInit ==
    /\ index = NoIndex
    /\ ids = <<>>
    /\ metadatas = <<>>
    /\ documents = <<>>
    /\ indexFile = NoFile
    /\ metaFile = NoFile
    /\ call = NoCall
    /\ ret = Returned(EmptyResult)
    /\ mapper = NewMapper
    /\ artifact \in Artifacts
    /\ rq = <<>>
    /\ rres = NoAnswer
    /\ retr = NoRetrieval
    /\ cls = NoClass
    /\ ctx = NoContext
    /\ embedCall = NoEmbed
    /\ persisting = NotPersisting

ResolverNext ==
    \/ ParseRuleId /\ UNCHANGED <<indexVars, retrieverVars, contextVars>>
    \/ ClassifyQuery /\ UNCHANGED <<indexVars, retrieverVars, contextVars>>
    \/ ClassifyQueryQa /\ UNCHANGED <<indexVars, retrieverVars, contextVars>>

SpecResolver == ResolverInit /\ [][ResolverNext]_vars

(***************************************************************************)
(* Inputs and actions of the retriever specification                       *)
(***************************************************************************)
MaxCorpus == 3
MaxVariants == 2
MaxRetrievals == 1

\* indexed documents: texts that name rule 5, another rule, no rule, a
\* learned alert phrase, and the word "rule" without a number
RetrievalPool ==
    { [id |-> "p1", doc |-> <<"R", "u", "l", "e", " ", "5", " ", "x">>, v |-> <<1, 0>>,
       meta |-> [doctype |-> VStr("rulebook")]],
      [id |-> "p2", doc |-> <<"r", "u", "l", "e", " ", "2">>, v |-> <<1, 0>>,
       meta |-> [doctype |-> VStr("rulebook")]],
      [id |-> "p3", doc |-> <<"x">>, v |-> <<1, 0>>,
       meta |-> [doctype |-> VStr("tracker_row")]],
      [id |-> "p4", doc |-> <<"a", "b", " ", "c", "d">>, v |-> <<0, 1>>,
       meta |-> [doctype |-> VStr("tracker_row")]],
      [id |-> "p5", doc |-> <<"r", "u", "l", "e", " ", "x">>, v |-> <<1, 1>>,
       meta |-> [source |-> VStr("notes")]] }

\* the rule-key artifact of the retriever runs: missing, or one record
RetrievalArtifacts ==
    {NoArtifact,
     [exists |-> TRUE, valid |-> TRUE,
      records |-> <<[rule_id |-> <<"5">>, alert_name |-> <<"A", "b", " ", "c", "d">>]>>]}

\* the rule_id argument: none, or rule 5
RuleIdArgs == {<<>>, <<"0", "0", "5">>}

\* what the embedder returns for a variant: one row, as embed_texts([q])
VariantVectors == {<<1, 0>>, <<1, 1>>, <<0, 1>>}
VariantLists == SeqsUpTo(VariantVectors, MaxVariants) \ {<<>>}

\* res = indexer.query(qemb, k=k_per_query) for each variant in turn
VariantResults(embs, k) ==
    [v \in 1..Len(embs) |->
        query(index, ids, metadatas, documents, Arr(2, <<embs[v]>>, MaxDim), k)]

\* retrieve_context up to the merge: the mapper is loaded if it is not yet,
\* then _retrieve_with_dynamic_matching runs over the variants
RetrieveWithDynamicMatching ==
    \E embs \in VariantLists, k \in {1, MaxCorpus}, rule_id \in RuleIdArgs :
        /\ retr.calls < MaxRetrievals
        /\ mapper' = EnsureLoaded(mapper, artifact)
        /\ retr' = [calls   |-> retr.calls + 1,
                    rule_id |-> rule_id,
                    k       |-> k,
                    results |-> VariantResults(embs, k),
                    merged  |-> _retrieve_with_dynamic_matching(
                                    VariantResults(embs, k), rule_id, mapper')]
        /\ UNCHANGED <<indexVars, artifact, rq, rres>>

\* the index a retrieval opens: the documents cs added in one batch
RetrieverInit ==
    /\ \E cs \in SeqsUpTo(RetrievalPool, MaxCorpus) :
          /\ index = IF cs = <<>> THEN NoIndex
                      ELSE IndexAfterAdd(NoIndex, EmbOf(cs, 2, MaxDim))
          /\ ids = ListIds(cs, Len(cs))
          /\ metadatas = EnhancedMetadatas(ListMetas(cs, Len(cs)), ListDocs(cs, Len(cs)))
          /\ documents = ListDocs(cs, Len(cs))
    /\ indexFile = NoFile
    /\ metaFile = NoFile
    /\ call = NoCall
    /\ ret = Returned(EmptyResult)
    /\ mapper = NewMapper
    /\ artifact \in RetrievalArtifacts
    /\ rq = <<>>
    /\ rres = NoAnswer
    /\ retr = NoRetrieval
    /\ cls = NoClass
    /\ ctx = NoContext
    /\ embedCall = NoEmbed
    /\ persisting = NotPersisting

RetrieverNext ==
    \/ RetrieveWithDynamicMatching /\ UNCHANGED <<cls, contextVars>>

SpecRetriever == RetrieverInit /\ [][RetrieverNext]_vars

(***************************************************************************)
(* OllamaEmbedder.embed_texts.  The backend (ollama.embed) is outside the  *)
(* program: a response is either an exception or the value found under     *)
(* "embeddings", described by the array np.array makes of it.              *)
(***************************************************************************)
\* ollama.embed raised
BackendRaises == [asked |-> TRUE, raises |-> TRUE, ragged |-> FALSE, arr |-> Arr(0, <<>>, 0)]
\* rows of unequal length: np.array(embs, dtype=np.float32) raises ValueError
BackendRagged == [asked |-> TRUE, raises |-> FALSE, ragged |-> TRUE, arr |-> Arr(0, <<>>, 0)]
\* a response np.array turns into the array a
BackendArray(a) == [asked |-> TRUE, raises |-> FALSE, ragged |-> FALSE, arr |-> a]
\* the backend was not called
BackendNotAsked == [asked |-> FALSE, raises |-> FALSE, ragged |-> FALSE, arr |-> Arr(0, <<>>, 0)]
\* no "embeddings" key, or an empty list: np.array([]) has shape (0,)
BackendNothing == BackendArray(Arr(1, <<<<>>>>, 0))

EmbedRaised == [raised |-> TRUE, arr |-> Arr(0, <<>>, 0), called |-> TRUE]
EmbedReturned(called, a) == [raised |-> FALSE, arr |-> a, called |-> called]

\* embed_texts(texts) when the backend answers resp: whether it raised,
\* whether the backend was called, and the array returned
embed_texts(texts, resp) ==
    IF texts = <<>> THEN EmbedReturned(FALSE, Arr(2, <<>>, 1))
    ELSE IF resp.raises \/ resp.ragged THEN EmbedRaised
    ELSE IF resp.arr.ndim = 1
    THEN EmbedReturned(TRUE, Arr(2, resp.arr.rows, resp.arr.cols))
    ELSE IF resp.arr.ndim # 2 THEN EmbedRaised
    ELSE EmbedReturned(TRUE, resp.arr)

\* texts handed to the embedder
EmbedTextPool == {<<"x">>, TextRule2}

\* what the backend may answer: an exception, nothing, a scalar, one flat
\* vector, a list of up to MaxBatch + 1 vectors, ragged rows, a 3-D nesting
BackendResponses ==
    {BackendRaises, BackendRagged, BackendNothing,
     BackendArray(Arr(0, <<>>, 0)), BackendArray(Arr(3, <<<<1, 0>>>>, MaxDim))}
      \cup {BackendArray(Arr(1, <<v>>, MaxDim)) : v \in VariantVectors}
      \cup {BackendArray(Arr(2, rows, MaxDim)) :
               rows \in SeqsUpTo(VariantVectors, MaxBatch + 1) \ {<<>>}}

\* one call embed_texts(texts)
EmbedTexts ==
    \E texts \in SeqsUpTo(EmbedTextPool, MaxBatch), resp \in BackendResponses :
      LET out == embed_texts(texts, resp) IN
        /\ embedCall' = [op |-> "embed_texts", texts |-> texts,
                         resp |-> IF out.called THEN resp ELSE BackendNotAsked,
                         out |-> out]
        /\ UNCHANGED <<indexVars, resolverVars, retrieverVars, cls, ctx>>

EmbedInit ==
    /\ index = NoIndex
    /\ ids = <<>>
    /\ metadatas = <<>>
    /\ documents = <<>>
    /\ indexFile = NoFile
    /\ metaFile = NoFile
    /\ call = NoCall
    /\ ret = Returned(EmptyResult)
    /\ mapper = NewMapper
    /\ artifact = NoArtifact
    /\ rq = <<>>
    /\ rres = NoAnswer
    /\ retr = NoRetrieval
    /\ cls = NoClass
    /\ ctx = NoContext
    /\ embedCall = NoEmbed
    /\ persisting = NotPersisting

EmbedNext ==
    \/ EmbedTexts

SpecEmbed == EmbedInit /\ [][EmbedNext]_vars

(***************************************************************************)
(* _extract_rule_block_from_rulebook_text.  The patterns are matched on    *)
(* character sequences the way the re module matches them; a position is   *)
(* 1-based and 0 stands for "no match".                                    *)
(***************************************************************************)

\* text.replace("\r\n", "\n"): the "\r" of each "\r\n" is dropped
ReplaceCRLF(s) ==
    LET kept == {i \in 1..Len(s) : ~(s[i] = "\r" /\ i < Len(s) /\ s[i + 1] = "\n")}
    IN  IF Cardinality(kept) = Len(s) THEN s
        ELSE [n \in 1..Cardinality(kept) |->
                 s[CHOOSE i \in kept : Cardinality({j \in kept : j <= i}) = n]]

\* the first position at or after p whose character is not in the set
RunEnd(s, p, chars) ==
    IF \E i \in p..Len(s) : s[i] \notin chars
    THEN CHOOSE i \in p..Len(s) : s[i] \notin chars /\ \A j \in p..(i - 1) : s[j] \in chars
    ELSE Len(s) + 1

\* rule_id_norm.lstrip("0")
LStripZeros(s) == Slice(s, RunEnd(s, 1, {"0"}), Len(s))

\* the smallest position of a set of positions, 0 for the empty set
FirstPos(S) == IF S = {} THEN 0 ELSE CHOOSE a \in S : \A b \in S : a <= b
\* the largest position of a set of positions, 0 for the empty set
LastPos(S) == IF S = {} THEN 0 ELSE CHOOSE a \in S : \A b \in S : a >= b

\* the start of the line that holds position at, for a text that is searched
\* from position from on ("^" with re.MULTILINE)
LineStart(t, at, from) ==
    CHOOSE l \in from..at :
        /\ l = from \/ t[l - 1] = "\n"
        /\ \A j \in l..(at - 1) : t[j] # "\n"

\* 0*{rid_num}[^0-9] from position p: the positions of the character that
\* [^0-9] can take (0* takes any part of the run of zeros)
NumberEnds(t, p, rid_num) ==
    {z + Len(rid_num) :
        z \in {y \in p..RunEnd(t, p, {"0"}) :
                  /\ StartsAtLower(t, Lower(rid_num), y)
                  /\ y + Len(rid_num) <= Len(t)
                  /\ ~IsDigit(t[y + Len(rid_num)])}}

\* Rule#?0*{rid_num}[^0-9] with "Rule" at position at: the positions of the
\* character that [^0-9] can take
RuleHashEnds(t, at, rid_num) ==
    IF StartsAtLower(t, RuleWord, at)
    THEN UNION {NumberEnds(t, p, rid_num) : p \in {at + 4, SkipHash(t, at + 4)}}
    ELSE {}

\* Rule[ #:-]*0*{rid_num}[^0-9] with "Rule" at position at
RuleSepEnds(t, at, rid_num) ==
    IF StartsAtLower(t, RuleWord, at)
    THEN UNION {NumberEnds(t, p, rid_num) :
                   p \in (at + 4)..RunEnd(t, at + 4, {" ", "#", ":", "-"})}
    ELSE {}

\* ".*Rule#?0*{rid_num}[^0-9][^"]*" with the opening quote at position at
QuotedRuleAt(t, at, rid_num) ==
    /\ t[at] = "\""
    /\ \E r \in (at + 1)..Len(t) :
          /\ \A j \in (at + 1)..(r - 1) : t[j] # "\n"
          /\ \E e \in RuleHashEnds(t, r, rid_num) :
                \E c \in (e + 1)..Len(t) : t[c] = "\""

\* the first position where Rule#?0*{rid_num}[^0-9] matches
FirstRuleHash(t, rid_num) ==
    FirstPos({at \in 1..Len(t) : RuleHashEnds(t, at, rid_num) # {}})

\* the first position where Rule[ #:-]*0*{rid_num}[^0-9] matches
FirstRuleSep(t, rid_num) ==
    FirstPos({at \in 1..Len(t) : RuleSepEnds(t, at, rid_num) # {}})

\* the start of the first of the five pat_candidates that re.search finds:
\* the first two are anchored at the start of their line, the third opens
\* with a quote, the last two start at "Rule" (and are reached only when
\* the first two, which match wherever they do, found nothing)
StaticStartFrom(t, rid_num, hash, sep) ==
    IF hash # 0 THEN LineStart(t, hash, 1)
    ELSE IF sep # 0 THEN LineStart(t, sep, 1)
    ELSE FirstPos({at \in 1..Len(t) : QuotedRuleAt(t, at, rid_num)})

StaticStart(t, rid_num) ==
    TheOne({StaticStartFrom(t, rid_num, hash, FirstRuleSep(t, rid_num)) :
               hash \in {FirstRuleHash(t, rid_num)}})

\* {alert}.*Rule.*{rid_num} with the alert name at position at
AlertThenRuleAt(t, at, alert, rid_num) ==
    /\ StartsAtLower(t, Lower(alert), at)
    /\ \E r \in (at + Len(alert))..Len(t), n \in (at + Len(alert))..(Len(t) + 1) :
          /\ StartsAtLower(t, RuleWord, r)
          /\ n >= r + 4
          /\ StartsAtLower(t, Lower(rid_num), n)
          /\ \A j \in (at + Len(alert))..(r - 1) : t[j] # "\n"
          /\ \A j \in (r + 4)..(n - 1) : t[j] # "\n"

\* Rule.*{rid_num}.*{alert} with "Rule" at position at
RuleThenAlertAt(t, at, alert, rid_num) ==
    /\ StartsAtLower(t, RuleWord, at)
    /\ \E n \in (at + 4)..(Len(t) + 1), a \in (at + 4)..(Len(t) + 1) :
          /\ StartsAtLower(t, Lower(rid_num), n)
          /\ a >= n + Len(rid_num)
          /\ StartsAtLower(t, Lower(alert), a)
          /\ \A j \in (at + 4)..(n - 1) : t[j] # "\n"
          /\ \A j \in (n + Len(rid_num))..(a - 1) : t[j] # "\n"

\* the start of the first of the three patterns of one alert name that
\* re.search finds
AlertStartFrom(t, alert, rid_num, named) ==
    IF named # 0 THEN LineStart(t, named, 1)
    ELSE FirstPos({at \in 1..Len(t) :
                      \/ AlertThenRuleAt(t, at, alert, rid_num)
                      \/ RuleThenAlertAt(t, at, alert, rid_num)})

AlertStart(t, alert, rid_num) ==
    TheOne({AlertStartFrom(t, alert, rid_num, named) :
               named \in {FirstPos({at \in 1..Len(t) : StartsAtLower(t, Lower(alert), at)})}})

\* the loop over the patterns of the alert names: the start of the first
\* pattern that matches
RECURSIVE DynamicStart(_, _, _)
DynamicStart(t, alert_names, rid_num) ==
    IF alert_names = <<>> THEN 0
    ELSE TheOne({IF here # 0 THEN here
                 ELSE DynamicStart(t, Tail(alert_names), rid_num) :
                    here \in {AlertStart(t, Head(alert_names), rid_num)}})

\* the loop over pat_candidates
FirstMatch(t, rule_id_norm, rid_num, m) ==
    TheOne({IF static # 0 \/ ~m.loaded THEN static
            ELSE DynamicStart(t, get_alert_names(m, rule_id_norm), rid_num) :
               static \in {StaticStart(t, rid_num)}})

\* Rule[ #]*\d{1,4} with "Rule" at position at
NextRuleAt(t, at) ==
    /\ StartsAtLower(t, RuleWord, at)
    /\ RunEnd(t, at + 4, {" ", "#"}) <= Len(t)
    /\ IsDigit(t[RunEnd(t, at + 4, {" ", "#"})])

\* the last character of the block: the one before the line of the next rule
\* that re.search finds in t[start + 50:], or the last one of t
BlockEnd(t, start) ==
    TheOne({IF next = 0 THEN Len(t) ELSE LineStart(t, next, start + 50) - 1 :
               next \in {FirstPos({at \in (start + 50)..Len(t) : NextRuleAt(t, at)})}})

\* t.rfind("\nRow", 0, start)
RowBefore(t, start) ==
    LastPos({at \in 1..(start - 4) : StartsAt(t, <<"\n", "R", "o", "w">>, at)})

\* the block for a match at position start: up to the next rule, stripped,
\* grown back to the last "\nRow" when shorter than 200 characters
BlockFrom(t, start, end) ==
    TheOne({IF Len(block) < 200 /\ RowBefore(t, start) # 0
            THEN Strip(Slice(t, RowBefore(t, start), end))
            ELSE block :
               block \in {Strip(Slice(t, start, end))}})

ExtractAt(text, t, start) ==
    IF start = 0 THEN text
    ELSE TheOne({IF Len(block) > 10 THEN block ELSE text :
                    block \in {BlockFrom(t, start, BlockEnd(t, start))}})

_extract_rule_block_from_rulebook_text(text, rule_id_norm, m) ==
    IF text = <<>> \/ rule_id_norm = <<>> THEN text
    ELSE TheOne({TheOne({ExtractAt(text, t, start) :
                            start \in {FirstMatch(t, rule_id_norm,
                                                  LStripZeros(rule_id_norm), m)}}) :
                    t \in {ReplaceCRLF(text)}})

(***************************************************************************)
(* build_context_block.  The returned text is kept as the sequence of its  *)
(* lines; a line is a literal of the source, or a formatted line kept as   *)
(* the values it is formatted from.                                        *)
(***************************************************************************)
NoScore == [num |-> 0, den |-> 1]
Line(kind, lit, chars, names, score, src, row, data) ==
    [kind |-> kind, lit |-> lit, chars |-> chars, names |-> names,
     score |-> score, src |-> src, row |-> row, data |-> data]
\* a literal line of the source
Literal(lit) == Line("literal", lit, <<>>, <<>>, NoScore, VNone, VNone, JNull)
\* f"Searching for: Rule {rid}"
SearchingLine(rid) == Line("searching", "", rid, <<>>, NoScore, VNone, VNone, JNull)
\* f"Alert Names: {', '.join(alert_names)}"
AlertNamesLine(names) == Line("alert_names", "", <<>>, names, NoScore, VNone, VNone, JNull)
\* f"[score={s:.3f}] [src={src}] [row={rowindex}]"
TrackerScoreLine(s, src, row) == Line("tracker_score", "", <<>>, <<>>, s, src, row, JNull)
\* f"[score={s:.3f}] [src={src}]"
RulebookScoreLine(s, src) == Line("rulebook_score", "", <<>>, <<>>, s, src, VNone, JNull)
\* json.dumps(display_data, ensure_ascii=False, indent=2)
JsonLine(data) == Line("json", "", <<>>, <<>>, NoScore, VNone, VNone, data)
\* a line that holds text of a document
TextLine(chars) == Line("text", "", chars, <<>>, NoScore, VNone, VNone, JNull)

\* the text returned when there is no line
NoContextFound == <<Literal("No matching context found.")>>

\* truth value of a metadata value
Truthy(v) ==
    CASE v.t = "s" -> Len(v.s) > 0
      [] v.t \in {"i", "f"} -> v.n # 0
      [] v.t = "b" -> v.b
      [] v.t = "n" -> FALSE
      [] OTHER -> TRUE

\* (m or {}).get(key)
MetaGet(meta, key) == IF key \in DOMAIN meta THEN meta[key] ELSE VNone

\* (m or {}).get("source") or "tracker"
TrackerSrc(meta) ==
    IF Truthy(MetaGet(meta, "source")) THEN MetaGet(meta, "source")
    ELSE VStr(<<"t", "r", "a", "c", "k", "e", "r">>)

\* (m or {}).get("source") or (m or {}).get("filetype") or "rulebook"
RulebookSrc(meta) ==
    IF Truthy(MetaGet(meta, "source")) THEN MetaGet(meta, "source")
    ELSE IF Truthy(MetaGet(meta, "filetype")) THEN MetaGet(meta, "filetype")
    ELSE VStr(<<"r", "u", "l", "e", "b", "o", "o", "k">>)

\* truth value of a JSON value
JsonTruthy(v) ==
    CASE v.t = "null" -> FALSE
      [] v.t = "str" -> v.s # <<>>
      [] v.t = "num" -> v.s # <<"0">>
      [] OTHER -> v.members # <<>>

\* the words that make a tracker field relevant to a rule query
RelevantWords ==
    { <<"r", "u", "l", "e">>, <<"i", "n", "c", "i", "d", "e", "n", "t">>, <<"p", "r", "i", "o", "r", "i", "t", "y">>, <<"s", "t", "a", "t", "u", "s">>, <<"c", "o", "m", "m", "e", "n", "t", "s">>, <<"a", "l", "e", "r", "t">> }

\* relevant_data: the fields with a value whose key holds a relevant word
RelevantData(members) ==
    SelectSeq(members, LAMBDA e :
        e.v.t # "null" /\ \E w \in RelevantWords : Contains(Lower(e.k), w))

\* the line of a tracker hit's payload: the pretty JSON, or the stripped
\* text when the try block raises (json.loads, .items() on a value that is
\* no dict, item assignment on a value that is no dict)
TrackerPrettyFrom(d, rid, parsed, tracker_data, rule_info, display_data) ==
    IF \/ ~parsed.ok
       \/ rid # <<>> /\ tracker_data.t # "obj"
       \/ JsonTruthy(rule_info) /\ display_data.t # "obj"
    THEN TextLine(Take(Strip(d), 4000))
    ELSE IF JsonTruthy(rule_info)
    THEN JsonLine(JObj(DictSet(display_data.members, <<"_", "e", "x", "t", "r", "a", "c", "t", "e", "d", "_", "r", "u", "l", "e", "_", "i", "n", "f", "o">>, rule_info)))
    ELSE JsonLine(display_data)

\* rule_info: data.get("extracted_rule_info", {}) of the newer format
RuleInfo(data) ==
    IF data.t = "obj" /\ DictHas(data.members, <<"t", "r", "a", "c", "k", "e", "r", "_", "d", "a", "t", "a">>)
    THEN DictGet(data.members, <<"e", "x", "t", "r", "a", "c", "t", "e", "d", "_", "r", "u", "l", "e", "_", "i", "n", "f", "o">>, JObj(<<>>))
    ELSE JObj(<<>>)

\* display_data: the relevant fields for a rule query if there are any, else
\* all of tracker_data
DisplayData(tracker_data, rid) ==
    IF rid = <<>> THEN tracker_data
    ELSE TheOne({IF relevant_data # <<>> THEN JObj(relevant_data) ELSE tracker_data :
                    relevant_data \in {RelevantData(tracker_data.members)}})

TrackerPretty(d, rid) ==
    TheOne({TheOne({TrackerPrettyFrom(d, rid, parsed, tracker_data,
                                      RuleInfo(parsed.val),
                                      DisplayData(tracker_data, rid)) :
                       tracker_data \in {TrackerData(parsed.val)}}) :
               parsed \in {json_loads(d)}})

\* the lines of the query context
QueryContextLines(rid, m) ==
    IF rid = <<>> THEN <<>>
    ELSE <<Literal("=== QUERY CONTEXT ==="), SearchingLine(rid)>>
           \o (IF m.loaded /\ get_alert_names(m, rid) # <<>>
               THEN <<AlertNamesLine(get_alert_names(m, rid))>> ELSE <<>>)
           \o <<Literal("")>>

RECURSIVE TrackerHitLines(_, _)
TrackerHitLines(tr_hits, rid) ==
    IF tr_hits = <<>> THEN <<>>
    ELSE << TrackerScoreLine(Head(tr_hits).score, TrackerSrc(Head(tr_hits).meta),
                             MetaGet(Head(tr_hits).meta, "row_index")),
            TrackerPretty(Head(tr_hits).doc, rid),
            Literal("") >>
           \o TrackerHitLines(Tail(tr_hits), rid)

\* the lines of the tracker section
TrackerLines(tr_hits, rid) ==
    IF tr_hits = <<>> THEN <<>>
    ELSE <<Literal("=== TRACKER DATA ===")>> \o TrackerHitLines(tr_hits, rid)

\* the block of a rulebook hit: the crop when a rule id is known, the text
\* is longer than 100 characters and the crop is longer than 10
RulebookBlock(d, rid, m) ==
    IF rid # <<>> /\ Len(d) > 100
    THEN TheOne({IF Len(extracted) > 10 THEN extracted ELSE d :
                    extracted \in {_extract_rule_block_from_rulebook_text(d, rid, m)}})
    ELSE d

RECURSIVE RulebookHitLines(_, _, _)
RulebookHitLines(rb_hits, rid, m) ==
    IF rb_hits = <<>> THEN <<>>
    ELSE << RulebookScoreLine(Head(rb_hits).score, RulebookSrc(Head(rb_hits).meta)),
            TextLine(Strip(RulebookBlock(Head(rb_hits).doc, rid, m))),
            Literal("") >>
           \o RulebookHitLines(Tail(rb_hits), rid, m)

\* the lines of the rulebook section
RulebookLines(rb_hits, rid, m) ==
    IF rb_hits = <<>> THEN <<>>
    ELSE <<Literal("=== RULEBOOK PROCEDURES ===")>> \o RulebookHitLines(rb_hits, rid, m)

\* build_context_block(results, query), for the rule id rid that
\* parse_rule_id(query) returns and the mapper m it leaves
build_context_block(tracker, rulebook, rid, m) ==
    LET lines == QueryContextLines(rid, m)
                   \o TrackerLines(tracker, rid)
                   \o RulebookLines(rulebook, rid, m)
    IN  IF lines # <<>> THEN lines ELSE NoContextFound

(***************************************************************************)
(* Inputs and actions of the context specification: one retrieve_context   *)
(* call on an index, then build_context_block on its result                *)
(***************************************************************************)
\* a tracker row with 4 fields that hold data, one null and one blank
FourFieldRow ==
    <<"{", "\"", "a", "\"", ":", " ", "1", ",", " ", "\"", "b", "\"", ":",
      " ", "1", ",", " ", "\"", "c", "\"", ":", " ", "1", ",", " ", "\"",
      "d", "\"", ":", " ", "1", ",", " ", "\"", "e", "\"", ":", " ", "n",
      "u", "l", "l", ",", " ", "\"", "f", "\"", ":", " ", "\"", " ", "\"",
      "}">>
\* a tracker row with 5 fields that hold data
FiveFieldRow ==
    <<"{", "\"", "a", "\"", ":", " ", "1", ",", " ", "\"", "b", "\"", ":",
      " ", "1", ",", " ", "\"", "c", "\"", ":", " ", "1", ",", " ", "\"",
      "d", "\"", ":", " ", "1", ",", " ", "\"", "e", "\"", ":", " ", "\"",
      "x", "\"", "}">>
\* a tracker row with 5 fields that hold data, one of them a text that
\* mentions rule 5 and holds the digits 002
RuleFiveRow ==
    <<"{", "\"", "a", "\"", ":", " ", "1", ",", " ", "\"", "b", "\"", ":",
      " ", "1", ",", " ", "\"", "c", "\"", ":", " ", "1", ",", " ", "\"",
      "d", "\"", ":", " ", "1", ",", " ", "\"", "e", "\"", ":", " ", "\"",
      "R", "u", "l", "e", " ", "5", " ", "0", "0", "2", "\"", "}">>
\* a tracker row of the newer format, 5 fields under "tracker_data"
NestedRow ==
    <<"{", "\"", "t", "r", "a", "c", "k", "e", "r", "_", "d", "a", "t",
      "a", "\"", ":", " ", "{", "\"", "a", "\"", ":", " ", "1", ",", " ",
      "\"", "b", "\"", ":", " ", "1", ",", " ", "\"", "c", "\"", ":", " ",
      "1", ",", " ", "\"", "d", "\"", ":", " ", "1", ",", " ", "\"", "e",
      "\"", ":", " ", "1", "}", ",", " ", "\"", "t", "y", "p", "e", "\"",
      ":", " ", "\"", "x", "\"", "}">>
\* a rulebook text of more than 100 characters: a short paragraph of rule 2,
\* then the paragraph of rule 5
ShortRuleText ==
    <<"R", "u", "l", "e", "#", "0", "0", "2", " ", "a", "b", "\n", "R",
      "u", "l", "e", "#", "0", "0", "5", " ", "c", "d", " ", "x", "x", "x",
      "x", "x", "x", "x", "x", "x", "x", "x", "x", "x", "x", "x", "x", "x",
      "x", "x", "x", "x", "x", "x", "x", "x", "x", "x", "x", "x", "x", "x",
      "x", "x", "x", "x", "x", "x", "x", "x", "x", "x", "x", "x", "x", "x",
      "x", "x", "x", "x", "x", "x", "x", "x", "x", "x", "x", "x", "x", "x",
      "x", "x", "x", "x", "x", "x", "x", "x", "x", "x", "x", "x", "x", "x",
      "x", "x", "x", "x", "x", "x", "x">>
\* a rulebook text of more than 100 characters: a paragraph of rule 2 of more
\* than 50 characters, then the paragraph of rule 5
LongRuleText ==
    <<"R", "u", "l", "e", "#", "0", "0", "2", " ", "a", "a", "a", "a", "a",
      "a", "a", "a", "a", "a", "a", "a", "a", "a", "a", "a", "a", "a", "a",
      "a", "a", "a", "a", "a", "a", "a", "a", "a", "a", "a", "a", "a", "a",
      "a", "a", "a", "a", "a", "a", "a", "a", "a", "a", "a", "a", "a", "a",
      "a", "a", "a", "\n", "R", "u", "l", "e", "#", "0", "0", "5", " ",
      "c", "d", " ", "x", "x", "x", "x", "x", "x", "x", "x", "x", "x", "x",
      "x", "x", "x", "x", "x", "x", "x", "x", "x", "x", "x", "x", "x", "x",
      "x", "x", "x", "x", "x", "x", "x", "x", "x", "x", "x", "x", "x", "x",
      "x">>

ContextPool ==
    { [id |-> "t4", doc |-> FourFieldRow, v |-> <<1, 0>>,
       meta |-> [doctype |-> VStr(<<"t", "r", "a", "c", "k", "e", "r", "_", "r", "o", "w">>)]],
      [id |-> "t5", doc |-> FiveFieldRow, v |-> <<1, 1>>,
       meta |-> [doctype |-> VStr(<<"t", "r", "a", "c", "k", "e", "r", "_", "r", "o", "w">>)]],
      [id |-> "t7", doc |-> RuleFiveRow, v |-> <<0, 1>>,
       meta |-> [doctype |-> VStr(<<"t", "r", "a", "c", "k", "e", "r", "_", "r", "o", "w">>)]],
      [id |-> "t6", doc |-> NestedRow, v |-> <<1, 0>>,
       meta |-> [source |-> VStr(<<"t", "r", "a", "c", "k", "e", "r", "_", "s", "h", "e", "e", "t">>)]],
      [id |-> "n4", doc |-> FourFieldRow, v |-> <<1, 0>>,
       meta |-> [source |-> VStr(<<"n", "o", "t", "e", "s">>)]],
      [id |-> "r1", doc |-> ShortRuleText, v |-> <<0, 1>>,
       meta |-> [doctype |-> VStr(<<"r", "u", "l", "e", "b", "o", "o", "k">>)]],
      [id |-> "r2", doc |-> LongRuleText, v |-> <<1, 1>>,
       meta |-> [filetype |-> VStr(<<"c", "s", "v">>)]],
      \* a rulebook chunk of the file "tracker rules.csv"
      [id |-> "r3", doc |-> <<"x">>, v |-> <<0, 1>>,
       meta |-> [doctype |-> VStr(<<"r", "u", "l", "e", "b", "o", "o", "k">>),
                 source |-> VStr(<<"t", "r", "a", "c", "k", "e", "r", " ", "r", "u",
                                   "l", "e", "s", ".", "c", "s", "v">>)]],
      \* a rulebook chunk about rule 20
      [id |-> "r4", doc |-> <<"R", "u", "l", "e", " ", "2", "0">>, v |-> <<1, 0>>,
       meta |-> [doctype |-> VStr(<<"r", "u", "l", "e", "b", "o", "o", "k">>)]] }

\* the documents of the index: up to MaxCorpus - 1 different chunks
Corpora ==
    {cs \in SeqsUpTo(ContextPool, MaxCorpus - 1) :
        \A a, b \in 1..Len(cs) : cs[a] = cs[b] => a = b}

\* queries: no rule content, a bare rule number, a rule mention, a learned
\* alert phrase, a procedural keyword
ContextQueries ==
    { <<"x">>,
      <<"2">>,
      <<"r", "u", "l", "e", " ", "5">>,
      <<"a", "b", " ", "c", "d">>,
      <<"s", "t", "e", "p", "s">> }

\* the embedding backend is a function of the text: e.rule is its answer
\* for a text that mentions "rule", e.other its answer for any other text
EmbedderAnswer(e, text) ==
    IF Contains(Lower(text), RuleWord) THEN e.rule ELSE e.other

OneVector(v) == BackendArray(Arr(2, <<v>>, MaxDim))

Embedders ==
    {[rule |-> OneVector(v), other |-> OneVector(v)] : v \in {<<1, 0>>, <<0, 1>>, <<-1, 0>>}}
      \cup {[rule |-> OneVector(<<0, 1>>), other |-> OneVector(<<1, 0>>)],
            [rule |-> BackendRaises, other |-> BackendRaises],
            [rule |-> BackendNothing, other |-> BackendNothing],
            [rule |-> BackendNothing, other |-> OneVector(<<1, 0>>)]}

\* qemb = embedder.embed_texts([q]) for each variant in turn
EmbedVariants(variants, e) ==
    [v \in 1..Len(variants) |-> embed_texts(<<variants[v]>>, EmbedderAnswer(e, variants[v]))]

\* whether the loop over the variants raises: an embedding call raises, or
\* the index rejects a query vector, or (rejectsZeroK) faiss rejects k = 0
VariantsRaise(outs, k, rejectsZeroK) ==
    \E v \in 1..Len(outs) :
        \/ outs[v].raised
        \/ QueryRaises(index, ids, metadatas, documents, outs[v].arr, k)
        \/ rejectsZeroK /\ k = 0 /\ ~QueryIsEmpty(index, outs[v].arr)

\* res = indexer.query(qemb, k=k_per_query) for each variant in turn
QueryVariantResults(outs, k) ==
    [v \in 1..Len(outs) |-> query(index, ids, metadatas, documents, outs[v].arr, k)]

RetrievalRaised(q, k_tracker, k_rulebook, e, c) ==
    [op |-> "retrieve_context", query |-> q, k_tracker |-> k_tracker,
     k_rulebook |-> k_rulebook, embedder |-> e, raised |-> TRUE, class |-> c,
     embedded |-> <<>>, raw |-> <<>>, tracker_hits |-> <<>>, rule_hits |-> <<>>,
     tracker_filtered |-> <<>>, rule_filtered |-> <<>>,
     tracker |-> <<>>, rulebook |-> <<>>, rid |-> <<>>, context |-> <<>>]

\* retrieve_context(query, k_tracker, k_rulebook) with the backend e
RetrieveContext ==
    /\ ctx.op = "none"
    /\ \E q \in ContextQueries, k_tracker \in 0..MaxK, k_rulebook \in 0..MaxK,
          e \in Embedders, rejectsZeroK \in BOOLEAN :
        /\ rejectsZeroK => Max(k_tracker, k_rulebook) = 0
        /\ \E c \in {ClassifyOutcome(EnsureLoaded(mapper, artifact), artifact, q)} :
           \E outs \in {EmbedVariants(QueryVariants(q, c.cls, c.mapper), e)} :
             /\ mapper' = c.mapper
             /\ rq' = q
             /\ cls' = c.cls
             /\ IF VariantsRaise(outs, Max(k_tracker, k_rulebook), rejectsZeroK)
                THEN ctx' = RetrievalRaised(q, k_tracker, k_rulebook, e, c.cls)
                ELSE \E raw \in {ZipResult(_retrieve_with_dynamic_matching(
                                     QueryVariantResults(outs, Max(k_tracker, k_rulebook)),
                                     c.cls.rule_id, c.mapper))} :
                     \E tracker_hits \in {TrackerPart(raw, c.cls.about_tracker)},
                        rule_hits \in {RulePart(raw, c.cls.about_tracker)} :
                     \E tracker_filtered \in
                            {_filter_empty_tracker_rows(
                                 FilterTrackerByRule(tracker_hits, c.cls, c.mapper))},
                        rule_filtered \in
                            {_filter_by_rule_relevance(rule_hits, c.cls.rule_id, c.mapper)} :
                        ctx' = [op |-> "retrieve_context", query |-> q,
                                k_tracker |-> k_tracker, k_rulebook |-> k_rulebook,
                                embedder |-> e, raised |-> FALSE, class |-> c.cls,
                                embedded |-> [v \in 1..Len(outs) |-> outs[v].arr],
                                raw |-> raw,
                                tracker_hits |-> tracker_hits, rule_hits |-> rule_hits,
                                tracker_filtered |-> tracker_filtered,
                                rule_filtered |-> rule_filtered,
                                tracker |-> _norm(TopK(tracker_filtered, k_tracker)),
                                rulebook |-> _norm(TopK(rule_filtered, k_rulebook)),
                                rid |-> <<>>, context |-> <<>>]
    /\ UNCHANGED <<indexVars, artifact, rres, retr, embedCall>>

\* build_context_block(results, query) on the result of the retrieval
BuildContext ==
    /\ ctx.op = "retrieve_context"
    /\ ~ctx.raised
    /\ \E out \in {ParseOutcome(mapper, artifact, ctx.query)} :
       \E context \in {build_context_block(ctx.tracker, ctx.rulebook,
                                            out.rule_id, out.mapper)} :
          /\ mapper' = out.mapper
          /\ ctx' = [ctx EXCEPT !.op = "build_context_block",
                                !.rid = out.rule_id,
                                !.context = context]
    /\ UNCHANGED <<indexVars, artifact, rq, rres, retr, cls, embedCall>>

\* the index a retrieval opens: the documents of one corpus
ContextInit ==
    /\ \E cs \in Corpora :
          /\ index = IF cs = <<>> THEN NoIndex
                      ELSE IndexAfterAdd(NoIndex, EmbOf(cs, 2, MaxDim))
          /\ ids = ListIds(cs, Len(cs))
          /\ metadatas = EnhancedMetadatas(ListMetas(cs, Len(cs)), ListDocs(cs, Len(cs)))
          /\ documents = ListDocs(cs, Len(cs))
    /\ indexFile = NoFile
    /\ metaFile = NoFile
    /\ call = NoCall
    /\ ret = Returned(EmptyResult)
    /\ mapper = NewMapper
    /\ artifact \in RetrievalArtifacts
    /\ rq = <<>>
    /\ rres = NoAnswer
    /\ retr = NoRetrieval
    /\ cls = NoClass
    /\ ctx = NoContext
    /\ embedCall = NoEmbed
    /\ persisting = NotPersisting

ContextNext ==
    \/ RetrieveContext
    \/ BuildContext

SpecContext == ContextInit /\ [][ContextNext]_vars

(***************************************************************************)
(* Properties of the vector index (checked under SpecIndex)                *)
(***************************************************************************)
Alignment ==
    /\ count(index) = Len(ids)
    /\ Len(ids) = Len(metadatas)
    /\ Len(metadatas) = Len(documents)

\* the add call of this step passed three lists as long as the batch has rows
AlignedAddStep ==
    /\ call'.nIds = call'.rows
    /\ call'.nMetas = call'.rows
    /\ call'.nDocs = call'.rows

\* C1 as stated: count() == len(ids) == len(metadatas) == len(documents) in
\* every reachable state, whatever the lengths of the lists passed to add,
\* and count() is 0 while the index is EMPTY.
C1_AlignmentAlways == Alignment /\ (~index.open => count(index) = 0)

\* C1 amended: every step other than an add whose lists differ in length from
\* the batch keeps count() == len(ids) == len(metadatas) == len(documents);
\* the index starts aligned, and count() is 0 while it is EMPTY.
C1_AlignmentUnderEqualLengths ==
    [][ /\ (~index'.open => count(index') = 0)
        /\ (Alignment /\ (call'.op = "add" => AlignedAddStep)) => Alignment' ]_vars

C1_Witness ==
    /\ call.op = "add" /\ ~ret.raised
    /\ call.rows = MaxBatch /\ call.nIds = call.rows
    /\ call.nMetas = call.rows /\ call.nDocs = call.rows
    /\ count(index) = MaxDocs
    /\ Alignment

\* C2: the first non-empty add fixes the dimension, no later call on the
\* instance changes it, and an add on an OPEN index with another column count
\* raises and leaves count(), ids, metadatas and documents as they were.
C2_DimensionLock ==
    [][ /\ (call'.op = "add" /\ ~index.open /\ index'.open) => index'.d = call'.cols
        /\ (call'.op # "init" /\ index.open) => (index'.open /\ index'.d = index.d)
        /\ (call'.op = "add" /\ index.open /\ call'.ndim = 2
              /\ CallSize(call') > 0 /\ call'.cols # index.d)
             => /\ ret'.raised
                /\ count(index') = count(index)
                /\ ids' = ids /\ metadatas' = metadatas /\ documents' = documents
                /\ index' = index ]_vars

C2_Witness ==
    /\ call.op = "add" /\ ret.raised
    /\ call.ndim = 2 /\ CallSize(call) > 0
    /\ index.open /\ call.cols # index.d
    /\ count(index) >= 2

\* C3: persist() followed by the construction of a new instance on the same
\* location gives the ids, metadatas, documents and count() the persisted
\* instance had (an EMPTY instance comes back EMPTY).
C3_RoundTrip ==
    [][ (call.op = "persist" /\ call'.op = "init")
          => /\ ids' = ids
             /\ metadatas' = metadatas
             /\ documents' = documents
             /\ count(index') = count(index)
             /\ index'.open = index.open ]_vars

C3_Witness ==
    /\ call.op = "init"
    /\ index.open /\ count(index) >= 2
    /\ \E i \in 1..Len(metadatas) : "weight" \in DOMAIN metadatas[i]
    /\ \E i \in 1..Len(metadatas) : "source" \in DOMAIN metadatas[i]
    /\ ids = LoadIds(metaFile)

Descending(scores) == \A i \in 1..(Len(scores) - 1) : scores[i] >= scores[i + 1]

\* C4: a query on an EMPTY index, or with a vector of no elements, returns
\* the empty result and does not raise; a result returned by an OPEN index has
\* at most k hits, four lists of one length, and descending scores.
C4_QueryResult ==
    call.op = "query" =>
        /\ (~index.open \/ CallSize(call) = 0)
              => (~ret.raised /\ ret.hits = EmptyResult)
        /\ ~ret.raised
              => /\ Len(ret.hits.ids) <= call.k
                 /\ Len(ret.hits.scores) = Len(ret.hits.ids)
                 /\ Len(ret.hits.documents) = Len(ret.hits.ids)
                 /\ Len(ret.hits.metadatas) = Len(ret.hits.ids)
                 /\ Descending(ret.hits.scores)

C4_Witness ==
    /\ call.op = "query" /\ ~ret.raised
    /\ index.open /\ count(index) > call.k
    /\ Len(ret.hits.ids) = call.k /\ call.k >= 2
    /\ ret.hits.scores[1] > ret.hits.scores[2]
    /\ ret.hits.ids[1] = ids[count(index)]

IsPrefix(a, b) == Len(a) <= Len(b) /\ \A i \in 1..Len(a) : a[i] = b[i]

\* C21: the index is append-only.  Every add, query and persist call leaves
\* the ids, metadatas, documents and vectors stored before it as a prefix of
\* those stored after it; an add that raises or is a no-op, a query and a
\* persist leave them as they were.
C21_AppendOnly ==
    [][ call'.op \in {"add", "query", "persist"} =>
          /\ IsPrefix(ids, ids')
          /\ IsPrefix(metadatas, metadatas')
          /\ IsPrefix(documents, documents')
          /\ IsPrefix(index.vecs, index'.vecs)
          /\ count(index') >= count(index)
          /\ (call'.op # "add" \/ ret'.raised \/ CallSize(call') = 0)
                => /\ ids' = ids /\ metadatas' = metadatas
                   /\ documents' = documents /\ index' = index ]_vars

\* a second batch was added after a first one
C21_Witness ==
    /\ call.op = "add" /\ ~ret.raised /\ CallSize(call) > 0
    /\ call.rows >= 1 /\ call.rows < count(index)
    /\ Len(ids) > call.nIds /\ Len(documents) > call.nDocs

(***************************************************************************)
(* Properties of persist() under a crash (checked under SpecCrash)         *)
(***************************************************************************)
\* the instance holds what _load reads from the two files
LoadedFrom(files) ==
    /\ files.indexFile.exists /\ files.metaFile.exists
    /\ index = ReadIndex(files.indexFile)
    /\ ids = LoadIds(files.metaFile)
    /\ metadatas = LoadMetadatas(files.metaFile)
    /\ documents = LoadDocuments(files.metaFile)

\* C22 as stated: when persist() is interrupted between or during its file
\* writes and an index was persisted before, a FaissIndexer constructed
\* afterwards on the location loads the previously persisted state or the
\* new one, with count() == len(ids) == len(metadatas) == len(documents).
C22_CrashSafePersist ==
    (persisting.pc = "reopened" /\ persisting.old.indexFile.exists) =>
        /\ ~ret.raised
        /\ LoadedFrom(persisting.old) \/ LoadedFrom(persisting.new)
        /\ Alignment

(***************************************************************************)
(* Properties of the rule identity resolver (checked under SpecResolver)   *)
(***************************************************************************)
Parsed == rres.op = "parse_rule_id"

AllDigits(s) == \A i \in 1..Len(s) : IsDigit(s[i])

\* C8 as stated: every non-empty value parse_rule_id returns is a string of
\* exactly 3 digits.
C8_ExactlyThreeDigits ==
    (Parsed /\ rres.rule_id # <<>>) => (Len(rres.rule_id) = 3 /\ AllDigits(rres.rule_id))

\* the spellings of a number: bare, or after "rule" in any case with nothing,
\* a space or "#" in between
SpellingsOf(n) ==
    {n} \cup {w \o sep \o n : w \in RuleSpellings, sep \in Separators}

\* numbers 1..999 written with at most 4 digits
SmallNumbers == {n \in NumberPool : Len(n) <= 4 /\ Len(IntStr(n)) <= 3}

\* C9 as stated: every accepted spelling of a rule number n in 1..999, with
\* any number of leading zeros up to 4 digits, resolves to the 3-digit
\* zero-padded form of n.
C9_SpellingIndependent ==
    Parsed => \A n \in SmallNumbers :
                 rq \in SpellingsOf(n) => rres.rule_id = ZFill(IntStr(n), 3)

\* the stages of the resolver, each stated on the query and the mapper
ExactStage == EXACT_RULE_PAT(rq).found
EmbeddedStage == RULE_PAT(rq).found
NumberStage == JUST_NUMBER_PAT(rq).found
DirectStage ==
    mapper.loaded /\ \E i \in 1..Len(mapper.alert_to_rule_map) :
        DirectAlertHit(mapper.alert_to_rule_map[i].k, Strip(Lower(rq)))
PartialStage ==
    mapper.loaded /\ \E i \in 1..Len(mapper.alert_to_rule_map) :
        PartialAlertHit(mapper.alert_to_rule_map[i].k, Strip(Lower(rq)))

\* C10: parse_rule_id returns the result of the first matching stage, in the
\* order exact pattern, embedded pattern, bare number, learned phrase as a
\* substring, learned phrase by its words; a query matching no stage returns
\* the empty string.
C10_FirstStageWins ==
    Parsed =>
      /\ ExactStage => rres.rule_id = ZFill(EXACT_RULE_PAT(rq).group, 3)
      /\ (~ExactStage /\ EmbeddedStage)
            => rres.rule_id = ZFill(RULE_PAT(rq).group, 3)
      /\ (~ExactStage /\ ~EmbeddedStage /\ NumberStage)
            => rres.rule_id = ZFill(JUST_NUMBER_PAT(rq).group, 3)
      /\ (~ExactStage /\ ~EmbeddedStage /\ ~NumberStage /\ DirectStage)
            => \E i \in 1..Len(mapper.alert_to_rule_map) :
                  /\ DirectAlertHit(mapper.alert_to_rule_map[i].k, Strip(Lower(rq)))
                  /\ \A j \in 1..(i - 1) :
                        ~DirectAlertHit(mapper.alert_to_rule_map[j].k, Strip(Lower(rq)))
                  /\ rres.rule_id = mapper.alert_to_rule_map[i].v
      /\ (~ExactStage /\ ~EmbeddedStage /\ ~NumberStage /\ ~DirectStage /\ PartialStage)
            => \E i \in 1..Len(mapper.alert_to_rule_map) :
                  /\ PartialAlertHit(mapper.alert_to_rule_map[i].k, Strip(Lower(rq)))
                  /\ \A j \in 1..(i - 1) :
                        ~PartialAlertHit(mapper.alert_to_rule_map[j].k, Strip(Lower(rq)))
                  /\ rres.rule_id = mapper.alert_to_rule_map[i].v
      /\ (~ExactStage /\ ~EmbeddedStage /\ ~NumberStage /\ ~DirectStage /\ ~PartialStage)
            => rres.rule_id = <<>>

\* a query in which one learned phrase occurs as a substring while an earlier
\* learned phrase of another rule matches only by its words
C10_Witness ==
    /\ Parsed /\ mapper.loaded
    /\ ~ExactStage /\ ~EmbeddedStage /\ ~NumberStage
    /\ \E i, j \in 1..Len(mapper.alert_to_rule_map) :
          /\ j < i
          /\ DirectAlertHit(mapper.alert_to_rule_map[i].k, Strip(Lower(rq)))
          /\ ~DirectAlertHit(mapper.alert_to_rule_map[j].k, Strip(Lower(rq)))
          /\ PartialAlertHit(mapper.alert_to_rule_map[j].k, Strip(Lower(rq)))
          /\ mapper.alert_to_rule_map[i].v # mapper.alert_to_rule_map[j].v
          /\ rres.rule_id = mapper.alert_to_rule_map[i].v

\* the number of words of the phrase that are words of the query
RECURSIVE WholeWordCount(_, _)
WholeWordCount(words, query_words) ==
    IF words = <<>> THEN 0
    ELSE (IF InList(query_words, Head(words)) THEN 1 ELSE 0)
           + WholeWordCount(Tail(words), query_words)

\* a phrase of at least two words, at least 60% of which are words of the query
WholeWordMatch(phrase, query_lower) ==
    /\ Len(Split(phrase)) >= 2
    /\ 10 * WholeWordCount(Split(phrase), Split(query_lower)) >= 6 * Len(Split(phrase))

\* a call that got as far as the word-wise loop of the loaded mapper
ReachedPartialLoop ==
    Parsed /\ mapper.loaded /\ ReachesMapper(rq) /\ ~DirectStage

\* C11 as stated: a query that reaches the word-wise matching resolves to a
\* rule exactly when some learned phrase of two or more words has at least 60%
\* of its words in the query as whole words, and then to the rule of the first
\* such phrase.
C11_PartialWholeWords ==
    ReachedPartialLoop =>
      LET d == mapper.alert_to_rule_map
          q == Strip(Lower(rq))
      IN  /\ (rres.rule_id # <<>>) <=> (\E i \in 1..Len(d) : WholeWordMatch(d[i].k, q))
          /\ \A i \in 1..Len(d) :
                (WholeWordMatch(d[i].k, q) /\ \A j \in 1..(i - 1) : ~WholeWordMatch(d[j].k, q))
                   => rres.rule_id = d[i].v


(***************************************************************************)
(* Properties of classify_query (checked under SpecResolver)               *)
(***************************************************************************)
Classified == cls.by = "context_retriever"
ClassifiedQa == cls.by = "retriever_qa"

HasProceduralKeyword(q) == AnyIn(basic_rule_indicators, Lower(q))

\* C12 as stated: about_rule is true for every query from which rule-id
\* extraction succeeds and for every query with one of the keywords rule,
\* remediation, procedure, steps, whether or not the learned mapping is
\* loaded.
C12_AboutRule ==
    Classified =>
        ((cls.rule_id # <<>> \/ HasProceduralKeyword(rq)) => cls.about_rule)

\* C13: about_tracker is true exactly when the query contains a tracker
\* keyword or about_rule is false, so that every query is classified into at
\* least one of the two sources; for the classify_query of both modules.
C13_TrackerDefault ==
    /\ Classified =>
          /\ cls.about_tracker <=> (AnyIn(TrackerKeywords, Lower(rq)) \/ ~cls.about_rule)
          /\ cls.about_rule \/ cls.about_tracker
    /\ ClassifiedQa =>
          /\ cls.about_tracker <=> (AnyIn(TrackerKeywordsQa, Lower(rq)) \/ ~cls.about_rule)
          /\ cls.about_rule \/ cls.about_tracker

\* a query without tracker keyword and without rule content is put in the
\* tracker bucket by default
C13_Witness ==
    /\ Classified
    /\ rq # <<>>
    /\ ~AnyIn(TrackerKeywords, Lower(rq))
    /\ ~cls.about_rule
    /\ cls.about_tracker

(***************************************************************************)
(* Properties of embed_texts (checked under SpecEmbed)                     *)
(***************************************************************************)
Embedded == embedCall.op = "embed_texts"

\* C20 as stated: whenever embed_texts returns, the matrix has exactly
\* len(texts) rows; an empty input returns a zero-row matrix without a
\* backend call, a 1-D backend result is returned as one row, and a result
\* that is neither 1-D nor 2-D raises.
C20_RowPerText ==
    Embedded =>
      /\ ~embedCall.out.raised
            => /\ embedCall.out.arr.ndim = 2
               /\ Len(embedCall.out.arr.rows) = Len(embedCall.texts)
      /\ embedCall.texts = <<>>
            => ~embedCall.out.raised /\ ~embedCall.out.called
                 /\ Len(embedCall.out.arr.rows) = 0
      /\ (embedCall.out.called /\ ~embedCall.resp.raises /\ ~embedCall.resp.ragged
            /\ embedCall.resp.arr.ndim = 1)
            => ~embedCall.out.raised /\ Len(embedCall.out.arr.rows) = 1
      /\ (embedCall.out.called /\ ~embedCall.resp.raises /\ ~embedCall.resp.ragged
            /\ embedCall.resp.arr.ndim \notin {1, 2})
            => embedCall.out.raised

(***************************************************************************)
(* Properties of retrieve_context (checked under SpecContext)              *)
(***************************************************************************)
Called == ctx.op # "none"
Retrieved == Called /\ ~ctx.raised

HitIn(hits, id) == \E n \in 1..Len(hits) : hits[n].id = id

\* the payload of a text is a JSON object with fewer than 5 fields that are
\* neither null nor blank
EmptyPayload(d) ==
    /\ json_loads(d).ok
    /\ TrackerData(json_loads(d).val).t = "obj"
    /\ NonNullCount(TrackerData(json_loads(d).val).members) < 5

\* C14 as stated: every hit of the tracker bucket, whichever branch of the
\* partition put it there, is dropped exactly when its payload is a JSON
\* object with fewer than 5 non-null, non-blank fields (4 fields: dropped,
\* 5 fields: kept, no JSON: kept).
C14_EmptyRowsDropped ==
    Retrieved =>
        LET before == FilterTrackerByRule(ctx.tracker_hits, ctx.class, mapper)
        IN  \A n \in 1..Len(before) :
                ~HitIn(ctx.tracker_filtered, before[n].id) <=> EmptyPayload(before[n].doc)

\* the n-th hit of a returned bucket is the n-th hit of the filtered list
SameHit(returned, filtered) ==
    /\ returned.id = filtered.id
    /\ returned.doc = filtered.doc
    /\ returned.meta = filtered.meta

\* C15: the tracker bucket holds the first min(k_tracker, n) hits of the
\* filtered tracker list and the rulebook bucket the first min(k_rulebook, n)
\* hits of the filtered rulebook list, so neither exceeds its k, for k >= 0.
C15_TopK ==
    Retrieved =>
      /\ Len(ctx.tracker) = Min(ctx.k_tracker, Len(ctx.tracker_filtered))
      /\ Len(ctx.rulebook) = Min(ctx.k_rulebook, Len(ctx.rule_filtered))
      /\ Len(ctx.tracker) <= ctx.k_tracker
      /\ Len(ctx.rulebook) <= ctx.k_rulebook
      /\ \A n \in 1..Len(ctx.tracker) : SameHit(ctx.tracker[n], ctx.tracker_filtered[n])
      /\ \A n \in 1..Len(ctx.rulebook) : SameHit(ctx.rulebook[n], ctx.rule_filtered[n])

\* two tracker hits pass the filters and k_tracker is 1
C15_Witness ==
    /\ Retrieved
    /\ Len(ctx.tracker_filtered) = 2
    /\ ctx.k_tracker = 1
    /\ Len(ctx.tracker) = 1
    /\ ctx.tracker[1].id = ctx.tracker_filtered[1].id

\* a quotient num/den lies in (0, 1]
InUnitInterval(s) ==
    \/ s.den > 0 /\ s.num > 0 /\ s.num <= s.den
    \/ s.den < 0 /\ s.num < 0 /\ s.num >= s.den

NormalizedBucket(hits) ==
    hits # <<>> =>
      /\ \A n \in 1..Len(hits) : InUnitInterval(hits[n].score)
      /\ \E n \in 1..Len(hits) : hits[n].score.num = hits[n].score.den

\* C16 as stated: in a returned non-empty bucket every score lies in (0,1]
\* and the largest is exactly 1, for zero and negative raw scores too.
C16_NormalizedScores ==
    Retrieved => NormalizedBucket(ctx.tracker) /\ NormalizedBucket(ctx.rulebook)

\* the backend gave no embedding for some variant of the query
SomeVariantUnembedded ==
    \E v \in 1..Len(QueryVariants(ctx.query, ctx.class, mapper)) :
        LET answer == EmbedderAnswer(ctx.embedder,
                                     QueryVariants(ctx.query, ctx.class, mapper)[v])
        IN  answer.raises \/ answer = BackendNothing

\* C18 as stated: when the backend raises or returns no embedding for some
\* variant, retrieve_context fails as a whole; it returns neither buckets
\* computed from the other variants nor empty buckets.
C18_EmbeddingFailureFails ==
    (Called /\ SomeVariantUnembedded) => ctx.raised

(***************************************************************************)
(* Properties of build_context_block (checked under SpecContext)           *)
(***************************************************************************)
Built == ctx.op = "build_context_block"

\* C17 as stated: build_context_block returns exactly the sentinel
\* "No matching context found." if and only if both the tracker and the
\* rulebook bucket are empty, for every query, also one from which a rule
\* id is extracted.
C17_SentinelIffEmpty ==
    Built => (ctx.context = NoContextFound
                <=> (ctx.tracker = <<>> /\ ctx.rulebook = <<>>))

\* the rendered block of the n-th rulebook hit: the rulebook section is the
\* last one and takes three lines per hit
RenderedBlock(n) ==
    ctx.context[Len(ctx.context) - 3 * (Len(ctx.rulebook) - n) - 1].chars

\* the text names the rule rule_id at position at ("rule", an optional "#",
\* the number)
NamesRuleAt(d, at, rule_id) ==
    /\ OtherRuleAt(Lower(d), at)
    /\ ZFill(LStripZeros(Slice(d, DigitsAfterRule(Lower(d), at),
                               DigitRunEnd(d, DigitsAfterRule(Lower(d), at)))), 3)
         = rule_id

\* the text names another rule than rule_id at position at
NamesOtherRuleAt(d, at, rule_id) ==
    OtherRuleAt(Lower(d), at) /\ ~NamesRuleAt(d, at, rule_id)

\* the text holds the paragraph of rule_id followed by the paragraph of a
\* different rule
FollowedByOtherRule(d, rule_id) ==
    \E a, b \in 1..Len(d) :
        a < b /\ NamesRuleAt(d, a, rule_id) /\ NamesOtherRuleAt(d, b, rule_id)

\* C19 as stated: when a rule id is known, the block rendered for a rulebook
\* hit whose text holds the queried rule's paragraph followed by another
\* rule's paragraph names the queried rule and holds no text of the other
\* rule, whatever the length of the queried rule's paragraph; a text where
\* the rule does not occur is rendered in full.
C19_CropIsolatesRule ==
    (Built /\ ctx.rid # <<>>) =>
      \A n \in 1..Len(ctx.rulebook) :
         /\ FollowedByOtherRule(ctx.rulebook[n].doc, ctx.rid) =>
               /\ \E a \in 1..Len(RenderedBlock(n)) :
                     NamesRuleAt(RenderedBlock(n), a, ctx.rid)
               /\ \A b \in 1..Len(RenderedBlock(n)) :
                     ~NamesOtherRuleAt(RenderedBlock(n), b, ctx.rid)
         /\ (\A a \in 1..Len(ctx.rulebook[n].doc) :
                 ~NamesRuleAt(ctx.rulebook[n].doc, a, ctx.rid)) =>
               RenderedBlock(n) = Strip(ctx.rulebook[n].doc)

(***************************************************************************)
(* Properties of the merge (checked under SpecRetriever)                   *)
(***************************************************************************)
Merged == retr.calls > 0

\* the hits the variants returned, in variant order and rank order
RECURSIVE AllReturned(_)
AllReturned(results) ==
    IF results = <<>> THEN <<>>
    ELSE ZipResult(Head(results)) \o AllReturned(Tail(results))

\* the first hit with this id among the hits the variants returned
FirstReturned(id) ==
    LET all == AllReturned(retr.results)
    IN  all[CHOOSE n \in 1..Len(all) :
                all[n].id = id /\ \A j \in 1..(n - 1) : all[j].id # id]

MergedHit(n) ==
    Hit(retr.merged.ids[n], retr.merged.scores[n],
        retr.merged.documents[n], retr.merged.metadatas[n])

\* C5: an id appears once in the merged list, every returned id appears, and
\* the hit kept for an id is its first occurrence over the variant list (its
\* text, its metadata, and its raw score times the boost of its text).
C5_FirstOccurrenceWins ==
    Merged =>
      /\ \A a, b \in 1..Len(retr.merged.ids) :
            retr.merged.ids[a] = retr.merged.ids[b] => a = b
      /\ \A n \in 1..Len(AllReturned(retr.results)) :
            \E a \in 1..Len(retr.merged.ids) :
                retr.merged.ids[a] = AllReturned(retr.results)[n].id
      /\ \A a \in 1..Len(retr.merged.ids) :
            LET first == FirstReturned(retr.merged.ids[a])
            IN  /\ MergedHit(a).doc = first.doc
                /\ MergedHit(a).meta = first.meta
                /\ MergedHit(a).score
                     = first.score * boost_factor(first.doc, retr.rule_id, mapper)

\* an id returned by two variants, the later with the higher raw score
C5_Witness ==
    /\ Merged
    /\ Len(retr.results) >= 2
    /\ \E p \in 1..Len(retr.results[1].ids), r \in 1..Len(retr.results[2].ids) :
          /\ retr.results[1].ids[p] = retr.results[2].ids[r]
          /\ retr.results[1].documents[p] = retr.results[2].documents[r]
          /\ retr.results[2].scores[r] > retr.results[1].scores[p]
          /\ retr.results[1].scores[p] > 0
          /\ \A j \in 1..(p - 1) : retr.results[1].ids[j] # retr.results[1].ids[p]

\* the cascade of boost factors (in tenths) as section 4.5 states it: the
\* first applicable case, whether or not the mapper is loaded
CascadeBoost(d, rule_id, m) ==
    LET d_lower == Lower(d)
        other   == OtherRuleMatch(d_lower)
    IN  IF rule_id = <<>> \/ d = <<>> THEN 10
        ELSE IF AnyIn(ExactPatterns(rule_id), d_lower) THEN 25
        ELSE IF m.loaded /\ AnyIn(LowerAll(get_rule_patterns(m, rule_id)), d_lower) THEN 20
        ELSE IF Contains(d_lower, RuleWord)
        THEN (IF other.found
              THEN (IF ZFill(other.group, 3) # rule_id THEN 5 ELSE 10)
              ELSE 12)
        ELSE 10

\* C6 as stated: with a rule id known, the score of every merged hit is its
\* raw score times the first applicable factor of the cascade 2.5 / 2.0 /
\* 0.5 / 1.2 / 1.0, with and without a loaded mapper.
C6_BoostCascade ==
    (Merged /\ retr.rule_id # <<>>) =>
        \A a \in 1..Len(retr.merged.ids) :
            LET first == FirstReturned(retr.merged.ids[a])
            IN  MergedHit(a).score
                  = first.score * CascadeBoost(first.doc, retr.rule_id, mapper)

ExactHit(d) == AnyIn(ExactPatterns(retr.rule_id), Lower(d))
NoRuleHit(d) == ~Contains(Lower(d), RuleWord)
DifferentRuleHit(d) ==
    /\ ~ExactHit(d)
    /\ OtherRuleMatch(Lower(d)).found
    /\ ZFill(OtherRuleMatch(Lower(d)).group, 3) # retr.rule_id

\* C7 as stated: of three merged hits with one positive raw score, one with
\* an exact pattern of the queried rule, one naming a different rule and one
\* without rule mention, the exact one ranks first, the one without rule
\* mention second and the different-rule one last.
C7_BoostOrdering ==
    (Merged /\ retr.rule_id # <<>>) =>
        \A a, b, c \in 1..Len(retr.merged.ids) :
            ( /\ ExactHit(MergedHit(a).doc)
              /\ NoRuleHit(MergedHit(b).doc)
              /\ DifferentRuleHit(MergedHit(c).doc)
              /\ FirstReturned(MergedHit(a).id).score > 0
              /\ FirstReturned(MergedHit(a).id).score = FirstReturned(MergedHit(b).id).score
              /\ FirstReturned(MergedHit(b).id).score = FirstReturned(MergedHit(c).id).score )
            => (a < b /\ b < c)

(***************************************************************************)
(* Properties of the partition (checked under SpecContext)                 *)
(***************************************************************************)
IdsOf(hits) == {hits[n].id : n \in 1..Len(hits)}
Doctype(h) == MetaText(h.meta, "doctype")

\* C23 as stated: every merged hit is in exactly one bucket; a hit whose
\* doctype is tracker_row is only in the tracker bucket, a hit whose doctype
\* is rulebook is only in the rulebook bucket, and a hit that matches neither
\* metadata test is in the tracker bucket iff about_tracker.
C23_PartitionRespectsDoctype ==
    (ctx.op = "retrieve_context" /\ ~ctx.raised) =>
        /\ IdsOf(ctx.tracker_hits) \cup IdsOf(ctx.rule_hits) = IdsOf(ctx.raw)
        /\ IdsOf(ctx.tracker_hits) \cap IdsOf(ctx.rule_hits) = {}
        /\ \A n \in 1..Len(ctx.rule_hits) :
              Doctype(ctx.rule_hits[n]) # <<"t", "r", "a", "c", "k", "e", "r", "_", "r", "o", "w">>
        /\ \A n \in 1..Len(ctx.tracker_hits) :
              Doctype(ctx.tracker_hits[n]) # <<"r", "u", "l", "e", "b", "o", "o", "k">>
        /\ \A n \in 1..Len(ctx.raw) :
              (~_is_tracker_meta(ctx.raw[n].meta) /\ ~_is_rulebook_meta(ctx.raw[n].meta)) =>
                  (ctx.raw[n].id \in IdsOf(ctx.tracker_hits) <=> ctx.class.about_tracker)

\* the text names the rule rule_id: "rule", an optional "#", and a number
\* equal to the rule's
NamesRule(d, rule_id) == \E at \in 1..Len(d) : NamesRuleAt(d, at, rule_id)

\* the text names some rule number
NamesSomeRule(d) == \E at \in 1..Len(d) : OtherRuleAt(Lower(d), at)

\* the text holds an alert name learned for the rule
HoldsAlertNameOf(d, rule_id, m) ==
    /\ m.loaded
    /\ \E n \in 1..Len(DictGet(m.rule_to_alert_map, rule_id, <<>>)) :
          Contains(Lower(d), Lower(DictGet(m.rule_to_alert_map, rule_id, <<>>)[n]))

\* the group of a hit: it matches the queried rule, or it references a
\* different rule number, or it references no rule number
QueriedRuleGroup(d, rule_id, m) ==
    IF NamesRule(d, rule_id) \/ HoldsAlertNameOf(d, rule_id, m) THEN "exact"
    ELSE IF NamesSomeRule(d) THEN "related"
    ELSE "other"

GroupOf(hits, group, rule_id, m) ==
    SelectSeq(hits, LAMBDA h : QueriedRuleGroup(h.doc, rule_id, m) = group)

DescendingScores(hits) ==
    \A a, b \in 1..Len(hits) : a < b => hits[a].score >= hits[b].score

\* C24 as stated: with a rule id, the rulebook bucket after the relevance
\* filter is all hits that match the queried rule, then at most 2 hits that
\* reference a different rule number, then at most 1 hit that references no
\* rule number, each group in boosted-score order; without a rule id the
\* bucket is unchanged.
C24_RelevanceGroups ==
    (ctx.op = "retrieve_context" /\ ~ctx.raised) =>
        IF ctx.class.rule_id = <<>>
        THEN ctx.rule_filtered = ctx.rule_hits
        ELSE /\ ctx.rule_filtered =
                  GroupOf(ctx.rule_hits, "exact", ctx.class.rule_id, mapper)
                    \o Take(GroupOf(ctx.rule_hits, "related", ctx.class.rule_id, mapper), 2)
                    \o Take(GroupOf(ctx.rule_hits, "other", ctx.class.rule_id, mapper), 1)
             /\ \A g \in {"exact", "related", "other"} :
                   DescendingScores(GroupOf(ctx.rule_filtered, g, ctx.class.rule_id, mapper))

(***************************************************************************)
(* Properties of the tracker filter of exact rule queries (checked under   *)
(* SpecContext)                                                            *)
(***************************************************************************)
\* the rule's known patterns: "rule#{id}", "rule {id}", "rule {int(id)}" and
\* the patterns learned for the rule
KnownRulePatterns(rule_id, m) ==
    << RuleHashPrefix \o rule_id, RulePrefix \o rule_id, RulePrefix \o IntStr(rule_id) >>
      \o (IF m.loaded THEN LowerAll(get_rule_patterns(m, rule_id)) ELSE <<>>)

HoldsKnownPattern(h, rule_id, m) == AnyIn(KnownRulePatterns(rule_id, m), Lower(h.doc))

\* C25 as stated: for an exact-rule-only query the returned tracker bucket
\* holds only rows whose text contains one of the rule's known patterns, and
\* the rule filter removes no tracker row that contains one; for every other
\* query the tracker bucket is not filtered by rule.
C25_TrackerRuleFilter ==
    (ctx.op = "retrieve_context" /\ ~ctx.raised) =>
        IF ctx.class.is_exact_rule /\ ctx.class.rule_id # <<>>
        THEN /\ \A n \in 1..Len(ctx.tracker) :
                   HoldsKnownPattern(ctx.tracker[n], ctx.class.rule_id, mapper)
             /\ \A n \in 1..Len(ctx.tracker_hits) :
                   (/\ HoldsKnownPattern(ctx.tracker_hits[n], ctx.class.rule_id, mapper)
                    /\ KeepsRow(ctx.tracker_hits[n]))
                     => ctx.tracker_hits[n].id \in IdsOf(ctx.tracker_filtered)
        ELSE ctx.tracker_filtered = _filter_empty_tracker_rows(ctx.tracker_hits)

(***************************************************************************)
(* Properties of the order of the per-variant searches (checked under      *)
(* SpecContext)                                                            *)
(***************************************************************************)
\* retrieve_context from the merge on: merge with boost, sort, partition,
\* the two filters, top-k and _norm, for the per-variant results given
RetrievalBuckets(results, c, m, k_tracker, k_rulebook) ==
    LET raw == ZipResult(_retrieve_with_dynamic_matching(results, c.rule_id, m))
    IN  [tracker  |-> _norm(TopK(_filter_empty_tracker_rows(
                                FilterTrackerByRule(TrackerPart(raw, c.about_tracker), c, m)),
                            k_tracker)),
         rulebook |-> _norm(TopK(_filter_by_rule_relevance(
                                RulePart(raw, c.about_tracker), c.rule_id, m),
                            k_rulebook))]

\* what indexer.query returned for each variant, in the order of the variants
SearchResults ==
    [v \in 1..Len(ctx.embedded) |->
        query(index, ids, metadatas, documents, ctx.embedded[v],
              Max(ctx.k_tracker, ctx.k_rulebook))]

\* the results in the order of the variants, but for the v-th, which
\* completes first
CompletesFirst(s, v) ==
    <<s[v]>> \o [n \in 1..(Len(s) - 1) |-> IF n < v THEN s[n] ELSE s[n + 1]]

C27_UniqueIds ==
    \A a, b \in 1..Len(ids) : ids[a] = ids[b] => a = b

(***************************************************************************)
(* Properties of the loaded rule mapping (checked under SpecResolver)      *)
(***************************************************************************)
\* the variants derived from the id: "rule {id}", "rule#{id}",
\* "rule {int(id)}", "rule#{int(id)}"
IdVariants(rule_id) ==
    { RulePrefix \o rule_id, RuleHashPrefix \o rule_id,
      RulePrefix \o IntStr(rule_id), RuleHashPrefix \o IntStr(rule_id) }

\* C28 as stated: once the mapping is loaded, rule_patterns[r] of every
\* stored rule id r contains the id-derived variants of r and the lowercased
\* form of every alert name in rule_to_alert[r], also when several records
\* with different alert names share the rule id.
C28_PatternsCoverAlertNames ==
    mapper.loaded =>
        /\ \A i \in 1..Len(mapper.rule_patterns) :
              \A p \in IdVariants(mapper.rule_patterns[i].k) :
                  InList(mapper.rule_patterns[i].v, p)
        /\ \A i \in 1..Len(mapper.rule_to_alert_map) :
              \A n \in 1..Len(mapper.rule_to_alert_map[i].v) :
                  InList(get_rule_patterns(mapper, mapper.rule_to_alert_map[i].k),
                         Lower(mapper.rule_to_alert_map[i].v[n]))

(***************************************************************************)
(* Properties of classify_query over a process's life (checked under       *)
(* SpecResolver)                                                           *)
(***************************************************************************)
\* what classify_query(rq) returns as the first call of a process
FirstCallClass == classify_query(NewMapper, artifact, rq)

\* C29 as stated: for a fixed artifact, classify_query(q) returns the same
\* about_rule, about_tracker, rule_id and confidence whatever queries were
\* processed before, that is whether or not an earlier call has triggered
\* the lazy load of the mapping.
C29_HistoryIndependent ==
    Classified =>
        /\ cls.about_rule = FirstCallClass.about_rule
        /\ cls.about_tracker = FirstCallClass.about_tracker
        /\ cls.rule_id = FirstCallClass.rule_id
        /\ cls.confidence = FirstCallClass.confidence

(***************************************************************************)
(* Properties of hits about other rules (checked under SpecContext)        *)
(***************************************************************************)
\* the text references rule numbers, and none of them is the queried one
OnlyOtherRules(d, rule_id) == NamesSomeRule(d) /\ ~NamesRule(d, rule_id)

\* C30 as stated: a hit whose text references only rule numbers different
\* from the queried rule never receives the exact-match boost (2.5) in the
\* merge and is never placed in the exact-match group by the rulebook
\* relevance filter.
C30_OtherRuleNeverExact ==
    (ctx.op = "retrieve_context" /\ ~ctx.raised /\ ctx.class.rule_id # <<>>) =>
        /\ \A n \in 1..Len(ctx.raw) :
              OnlyOtherRules(ctx.raw[n].doc, ctx.class.rule_id) =>
                  boost_factor(ctx.raw[n].doc, ctx.class.rule_id, mapper) # 25
        /\ \A n \in 1..Len(ctx.rule_hits) :
              OnlyOtherRules(ctx.rule_hits[n].doc, ctx.class.rule_id) =>
                  RelevanceClass(ctx.rule_hits[n].doc, ctx.class.rule_id, mapper) # "exact"

====
